---------------------------- MODULE Spec2Model ----------------------------
(***************************************************************************)
(* Face liveness verification: the verification state machine hook         *)
(* (useLivenessStateMachine), its gates, the anti-spoof analyzer and the   *)
(* timers it schedules.                                                    *)
(*                                                                         *)
(* Units.  Pose metrics and EAR values are fixed-point numbers in          *)
(* hundredths (0.09 is 9); anti-spoof weights are in tenths; movement      *)
(* scores are in ten-thousandths.  Wall-clock time is counted in ticks of  *)
(* TICK_MS milliseconds; a setTimeout is a pending record whose remaining  *)
(* delay counts down, and Date.now() differences are kept as elapsed       *)
(* ticks.                                                                  *)
(***************************************************************************)
EXTENDS Integers, Sequences, FiniteSets, TLC

(* null where a string is expected, and where a record is expected. *)
NULL == "null"

NONE == [null |-> TRUE]

----------------------------------------------------------------------------
(* types/liveness.ts                                                       *)

STEP_ORDER == <<"ALIGN", "BLINK", "TURN_LEFT", "TURN_RIGHT", "TURN_UP", "TURN_DOWN">>

ChallengeSteps == {STEP_ORDER[i] : i \in 1..Len(STEP_ORDER)}

TurnSteps == {"TURN_LEFT", "TURN_RIGHT", "TURN_UP", "TURN_DOWN"}

ALIGN_REQUIRED_FRAMES == 12
INSIDE_GUIDE_MARGIN == 5
BLINK_CALIBRATION_FRAMES == 15
CLOSED_THRESHOLD_RATIO == 65
CLOSED_FRAME_THRESHOLD == 2
OPEN_FRAME_THRESHOLD == 2
BLINK_COOLDOWN_MS == 600
EMA_ALPHA == 3
YAW_THRESHOLD == 9
PITCH_THRESHOLD == 7
ROLL_WARNING_THRESHOLD == 15
POSE_HELD_FRAMES == 4
STEP_COOLDOWN_MS == 500
MIN_FACE_RATIO == 30
MAX_FACE_RATIO == 95
RESTART_DELAY_MS == 100
SUCCESS_DELAY_MS == 0

(* One tick of model time, in milliseconds. *)
TICK_MS == 100

Ticks(ms) == (ms + TICK_MS - 1) \div TICK_MS

----------------------------------------------------------------------------
(* Bounds of the model.                                                    *)

(* generateRandomStepOrder: swaps of the shuffle that are explored.        *)
MaxShuffleSteps == 1
(* generateRandomStepOrder: positions a swap's random index is drawn from. *)
MaxSwapTarget == 1
(* start()/restart() calls explored. *)
MaxSessions == 2
(* Frames with closed eyes in a row (closedFrameCount is unbounded).       *)
MaxClosedRun == 3
(* Completions of an already completed step that are explored.            *)
MaxRepeats == 1
(* Entries the shared earSamples array holds (it is never emptied).        *)
MaxSamples == 16

----------------------------------------------------------------------------
(* Helpers.                                                                *)

Abs(n) == IF n < 0 THEN -n ELSE n

RECURSIVE SumSeq(_)
SumSeq(s) == IF s = <<>> THEN 0 ELSE Head(s) + SumSeq(Tail(s))

(* Array.prototype.indexOf on a step list: 0-based, -1 when absent. *)
IndexOf(s, x) ==
    IF \E i \in 1..Len(s) : s[i] = x
    THEN (CHOOSE i \in 1..Len(s) : s[i] = x /\ \A j \in 1..(i - 1) : s[j] # x) - 1
    ELSE -1

IsPrefix(s, t) == Len(s) <= Len(t) /\ \A i \in 1..Len(s) : s[i] = t[i]

(* The last n entries of s: Array.prototype.slice(-n). *)
LastN(s, n) == IF Len(s) <= n THEN s ELSE SubSeq(s, Len(s) - n + 1, Len(s))

Swap(s, i, j) == [s EXCEPT ![i] = s[j], ![j] = s[i]]

(* The arrays an in-place shuffle can hold after its first k swaps: the    *)
(* k-th swap exchanges the entry at position Len - k + 1 with the entry at *)
(* a drawn position at or before it.  The draws explored are the position  *)
(* itself (no exchange) and the first MaxSwapTarget positions.             *)
RECURSIVE Shuffled(_)
Shuffled(k) ==
    IF k = 0 THEN {STEP_ORDER}
    ELSE LET i == Len(STEP_ORDER) - k + 1
         IN  {Swap(a, i, j) :
                 a \in Shuffled(k - 1),
                 j \in {i} \cup {t \in 1..i : t <= MaxSwapTarget}}

(* generateRandomStepOrder(): a shuffle of the six challenge steps, which  *)
(* pins no step to a position; explored up to MaxShuffleSteps swaps.       *)
generateRandomStepOrder == Shuffled(MaxShuffleSteps)

----------------------------------------------------------------------------
(* Landmark geometry.  A detected face is the record of the measurements   *)
(* the geometry functions derive from its keypoints: the bounding box      *)
(* (x, y, width, height), the pose metrics, the average EAR, the keypoint  *)
(* centroid and the depth statistics.                                      *)

IDEAL_WIDTH == 640
IDEAL_HEIGHT == 480
GUIDE_BOX_WIDTH_RATIO == 60
GUIDE_BOX_HEIGHT_RATIO == 70

(* calculateGuideBox() for a video of the ideal size. *)
calculateGuideBox ==
    LET width == (IDEAL_WIDTH * GUIDE_BOX_WIDTH_RATIO) \div 100
        height == (IDEAL_HEIGHT * GUIDE_BOX_HEIGHT_RATIO) \div 100
    IN  [x |-> (IDEAL_WIDTH - width) \div 2, y |-> (IDEAL_HEIGHT - height) \div 2,
         width |-> width, height |-> height]

calculateBoundingBox(face) ==
    [x |-> face.x, y |-> face.y, width |-> face.width, height |-> face.height]

(* isFaceInsideGuide: margin is a percentage, so both sides are scaled by 100. *)
isFaceInsideGuide(faceBbox, guideBox, margin) ==
    LET marginX100 == guideBox.width * margin
        marginY100 == guideBox.height * margin
    IN  /\ faceBbox.x * 100 >= guideBox.x * 100 - marginX100
        /\ faceBbox.y * 100 >= guideBox.y * 100 - marginY100
        /\ (faceBbox.x + faceBbox.width) * 100
               <= (guideBox.x + guideBox.width) * 100 + marginX100
        /\ (faceBbox.y + faceBbox.height) * 100
               <= (guideBox.y + guideBox.height) * 100 + marginY100

calculatePoseMetrics(face) ==
    [yawMetric |-> face.yawMetric, pitchMetric |-> face.pitchMetric,
     rollMetric |-> face.rollMetric, faceWidth |-> face.width,
     faceHeight |-> face.height]

calculateAverageEAR(face) == face.avgEAR

getYawDelta(current, baseline) == current - baseline

getPitchDelta(current, baseline) == current - baseline

isRollAcceptable(rollMetric, threshold) == Abs(rollMetric) <= threshold

----------------------------------------------------------------------------
(* Signal smoother and eye state (smoothing.ts, ear.ts).                   *)

(* ema without the cold start of line 707: the first value is blended with 0. *)
emaBlending(current, previous, alpha) ==
    (alpha * current + (10 - alpha) * previous + 5) \div 10

(* ema: alpha is in tenths; the result is rounded to the nearest hundredth. *)
ema(current, previous, alpha) ==
    IF previous = 0 THEN current
    ELSE (alpha * current + (10 - alpha) * previous + 5) \div 10

sma(values) == IF Len(values) = 0 THEN 0 ELSE SumSeq(values) \div Len(values)

(* getEyeState: currentEAR < openBaseline * ratio, the ratio a percentage. *)
getEyeState(currentEAR, openBaseline, closedThresholdRatio) ==
    IF openBaseline = 0 THEN "UNKNOWN"
    ELSE IF currentEAR * 100 < openBaseline * closedThresholdRatio THEN "CLOSED"
    ELSE "OPEN"

----------------------------------------------------------------------------
(* Anti-spoof analyzer (utils/antiSpoof.ts).  Depth values are in          *)
(* hundredths, movement scores in ten-thousandths, weights in tenths.      *)

MAX_HISTORY_FRAMES == 30
MIN_FRAMES_FOR_CHECK == 10
MIN_DEPTH_VARIANCE == 50
DEPTH_CHECK_WEIGHT == 4
MIN_MICRO_MOVEMENT == 3000
MOVEMENT_CHECK_WEIGHT == 3
MAX_STATIC_FRAMES == 20
STATIC_CHECK_WEIGHT == 3
SPOOF_THRESHOLD == 6
(* The literals of analyzeSpoof: more than 5 movement samples, a movement  *)
(* below 0.001 is static, more than 0.8 of the window static.              *)
MIN_MOVEMENT_SAMPLES == 5
STATIC_MOVEMENT == 10
STATIC_FRACTION == 8

createAntiSpoofState ==
    [frameHistory |-> <<>>, depthVariances |-> <<>>, movementScores |-> <<>>,
     spoofScore |-> 0, isSpoof |-> FALSE, reason |-> NULL]

(* createFrameSnapshot; the timestamp, which nothing reads, is left out. *)
createFrameSnapshot(face) ==
    [centerX |-> face.centerX, centerY |-> face.centerY, faceWidth |-> face.width,
     avgZ |-> face.avgZ, zVariance |-> face.zVariance]

calculateMicroMovement(current, previous) ==
    LET dx == Abs(current.centerX - previous.centerX)
        dy == Abs(current.centerY - previous.centerY)
        dWidth == Abs(current.faceWidth - previous.faceWidth)
        dZ == Abs(current.avgZ - previous.avgZ)
    IN  ((dx + dy) * 10000) \div current.faceWidth
          + (dWidth * 10000) \div current.faceWidth
          + dZ * 1000

(* Array.prototype.pop() in place of shift(): the newest entry is dropped. *)
EvictNewest(list) == IF Len(list) > MAX_HISTORY_FRAMES THEN SubSeq(list, 1, Len(list) - 1) ELSE list

(* Array.prototype.shift() once the list is longer than the history bound. *)
Evict(list) == IF Len(list) > MAX_HISTORY_FRAMES THEN Tail(list) ELSE list

(* analyzeSpoof, were the depth check the only one to score. *)
analyzeSpoofDepthOnly(depthVariances, movementScores) ==
    LET flat == SumSeq(depthVariances) < MIN_DEPTH_VARIANCE * Len(depthVariances)
        still ==
            /\ Len(movementScores) > MIN_MOVEMENT_SAMPLES
            /\ SumSeq(movementScores)
                 < (MIN_MICRO_MOVEMENT \div 100) * Len(movementScores)
        recentMovements == LastN(movementScores, MAX_STATIC_FRAMES)
        staticFrames ==
            Cardinality({i \in 1..Len(recentMovements) :
                            recentMovements[i] < STATIC_MOVEMENT})
        static ==
            /\ Len(movementScores) >= MAX_STATIC_FRAMES
            /\ staticFrames * 10 > MAX_STATIC_FRAMES * STATIC_FRACTION
        totalScore == IF flat THEN DEPTH_CHECK_WEIGHT ELSE 0
    IN  [spoofScore |-> totalScore,
         isSpoof |-> totalScore >= SPOOF_THRESHOLD,
         reason |-> IF flat THEN "Flat face detected (no depth)"
                    ELSE IF still THEN "No natural micro-movements"
                    ELSE IF static THEN "Face too static"
                    ELSE NULL]

(* analyzeSpoof, were the threshold to be exceeded, not reached. *)
analyzeSpoofStrict(depthVariances, movementScores) ==
    LET flat == SumSeq(depthVariances) < MIN_DEPTH_VARIANCE * Len(depthVariances)
        still ==
            /\ Len(movementScores) > MIN_MOVEMENT_SAMPLES
            /\ SumSeq(movementScores)
                 < (MIN_MICRO_MOVEMENT \div 100) * Len(movementScores)
        recentMovements == LastN(movementScores, MAX_STATIC_FRAMES)
        staticFrames ==
            Cardinality({i \in 1..Len(recentMovements) :
                            recentMovements[i] < STATIC_MOVEMENT})
        static ==
            /\ Len(movementScores) >= MAX_STATIC_FRAMES
            /\ staticFrames * 10 > MAX_STATIC_FRAMES * STATIC_FRACTION
        totalScore ==
            (IF flat THEN DEPTH_CHECK_WEIGHT ELSE 0)
              + (IF still THEN MOVEMENT_CHECK_WEIGHT ELSE 0)
              + (IF static THEN STATIC_CHECK_WEIGHT ELSE 0)
    IN  [spoofScore |-> totalScore,
         isSpoof |-> totalScore > SPOOF_THRESHOLD,
         reason |-> IF flat THEN "Flat face detected (no depth)"
                    ELSE IF still THEN "No natural micro-movements"
                    ELSE IF static THEN "Face too static"
                    ELSE NULL]

(* analyzeSpoof, were the last triggered reason the one surfaced. *)
analyzeSpoofLastReason(depthVariances, movementScores) ==
    LET flat == SumSeq(depthVariances) < MIN_DEPTH_VARIANCE * Len(depthVariances)
        still ==
            /\ Len(movementScores) > MIN_MOVEMENT_SAMPLES
            /\ SumSeq(movementScores)
                 < (MIN_MICRO_MOVEMENT \div 100) * Len(movementScores)
        recentMovements == LastN(movementScores, MAX_STATIC_FRAMES)
        staticFrames ==
            Cardinality({i \in 1..Len(recentMovements) :
                            recentMovements[i] < STATIC_MOVEMENT})
        static ==
            /\ Len(movementScores) >= MAX_STATIC_FRAMES
            /\ staticFrames * 10 > MAX_STATIC_FRAMES * STATIC_FRACTION
        totalScore ==
            (IF flat THEN DEPTH_CHECK_WEIGHT ELSE 0)
              + (IF still THEN MOVEMENT_CHECK_WEIGHT ELSE 0)
              + (IF static THEN STATIC_CHECK_WEIGHT ELSE 0)
    IN  [spoofScore |-> totalScore,
         isSpoof |-> totalScore >= SPOOF_THRESHOLD,
         reason |-> IF static THEN "Face too static"
                    ELSE IF still THEN "No natural micro-movements"
                    ELSE IF flat THEN "Flat face detected (no depth)"
                    ELSE NULL]

analyzeSpoof(depthVariances, movementScores) ==
    LET flat == SumSeq(depthVariances) < MIN_DEPTH_VARIANCE * Len(depthVariances)
        still ==
            /\ Len(movementScores) > MIN_MOVEMENT_SAMPLES
            /\ SumSeq(movementScores)
                 < (MIN_MICRO_MOVEMENT \div 100) * Len(movementScores)
        recentMovements == LastN(movementScores, MAX_STATIC_FRAMES)
        staticFrames ==
            Cardinality({i \in 1..Len(recentMovements) :
                            recentMovements[i] < STATIC_MOVEMENT})
        static ==
            /\ Len(movementScores) >= MAX_STATIC_FRAMES
            /\ staticFrames * 10 > MAX_STATIC_FRAMES * STATIC_FRACTION
        totalScore ==
            (IF flat THEN DEPTH_CHECK_WEIGHT ELSE 0)
              + (IF still THEN MOVEMENT_CHECK_WEIGHT ELSE 0)
              + (IF static THEN STATIC_CHECK_WEIGHT ELSE 0)
    IN  [spoofScore |-> totalScore,
         isSpoof |-> totalScore >= SPOOF_THRESHOLD,
         reason |-> IF flat THEN "Flat face detected (no depth)"
                    ELSE IF still THEN "No natural micro-movements"
                    ELSE IF static THEN "Face too static"
                    ELSE NULL]

(* updateAntiSpoofState without the check of lines 169-176: every window is analysed. *)
updateAntiSpoofStateEager(st, face) ==
    LET snapshot == createFrameSnapshot(face)
        newHistory == Evict(Append(st.frameHistory, snapshot))
        newDepthVariances == Evict(Append(st.depthVariances, snapshot.zVariance))
        newMovementScores ==
            IF Len(st.frameHistory) > 0
            THEN Evict(Append(st.movementScores,
                     calculateMicroMovement(snapshot,
                         st.frameHistory[Len(st.frameHistory)])))
            ELSE st.movementScores
        verdict == analyzeSpoof(newDepthVariances, newMovementScores)
    IN       [frameHistory |-> newHistory, depthVariances |-> newDepthVariances,
              movementScores |-> newMovementScores,
              spoofScore |-> verdict.spoofScore, isSpoof |-> verdict.isSpoof,
              reason |-> verdict.reason]

updateAntiSpoofState(st, face) ==
    LET snapshot == createFrameSnapshot(face)
        newHistory == Evict(Append(st.frameHistory, snapshot))
        newDepthVariances == Evict(Append(st.depthVariances, snapshot.zVariance))
        newMovementScores ==
            IF Len(st.frameHistory) > 0
            THEN Evict(Append(st.movementScores,
                     calculateMicroMovement(snapshot,
                         st.frameHistory[Len(st.frameHistory)])))
            ELSE st.movementScores
        verdict == analyzeSpoof(newDepthVariances, newMovementScores)
    IN  IF Len(newHistory) < MIN_FRAMES_FOR_CHECK
        THEN [st EXCEPT !.frameHistory = newHistory,
                        !.depthVariances = newDepthVariances,
                        !.movementScores = newMovementScores]
        ELSE [frameHistory |-> newHistory, depthVariances |-> newDepthVariances,
              movementScores |-> newMovementScores,
              spoofScore |-> verdict.spoofScore, isSpoof |-> verdict.isSpoof,
              reason |-> verdict.reason]

----------------------------------------------------------------------------
(* The state of useLivenessStateMachine.                                   *)

VARIABLES
    state,              \* stateRef.current: the LivenessState
    earSamples,         \* the array initialBlinkState.earSamples, which every
                        \* blinkState shares (the copies are shallow)
    smoothedEARRef,     \* smoothedEARRef.current
    currentMetricsRef,  \* currentMetricsRef.current, or NONE
    antiSpoofRef,       \* antiSpoofRef.current
    timers,             \* pending setTimeout callbacks, in scheduling order
    results,            \* the results handed to onSuccess so far
    sessions,           \* start()/restart() calls made so far
    eyeRuns,            \* history: the runs of classified frames (below)
    loop                \* the frame loop: the refs of useRafThrottleLoop, the
                        \* animation-frame callbacks and the onFrame calls

vars == <<state, earSamples, smoothedEARRef, currentMetricsRef, antiSpoofRef,
          timers, results, sessions, eyeRuns, loop>>

(* initialBlinkState.  lastBlinkTime is kept as sinceLastBlink, the ticks  *)
(* elapsed since it, saturated at the blink cooldown (lastBlinkTime = 0 is *)
(* long ago).  earSamples is the variable of that name.                    *)
initialBlinkState ==
    [isCalibrating |-> TRUE, calibrationFrames |-> 0, openEARBaseline |-> 0,
     closedThreshold |-> 0, eyeState |-> "UNKNOWN", closedFrameCount |-> 0,
     openFrameCount |-> 0, blinkDetected |-> FALSE,
     sinceLastBlink |-> Ticks(BLINK_COOLDOWN_MS)]

initialHeadPoseState == [heldFrames |-> 0, targetReached |-> FALSE]

(* initialState.  stepEnteredAt, which nothing reads, is left out;         *)
(* stepCompletedAt is TRUE for a timestamp and FALSE for null.             *)
initialState ==
    [currentStep |-> "IDLE", stepOrder |-> STEP_ORDER, stepCompletedAt |-> FALSE,
     alignedFrameCount |-> 0, baselineMetrics |-> NONE,
     blinkState |-> initialBlinkState, headPoseState |-> initialHeadPoseState,
     yawDeltas |-> <<>>, pitchDeltas |-> <<>>, completedSteps |-> <<>>,
     isComplete |-> FALSE, error |-> NULL]

NoResult == [stepsCompleted |-> <<>>, openEAR |-> 0, blinkThreshold |-> 0,
             yawDeltas |-> <<>>, pitchDeltas |-> <<>>]

(* setTimeout(fn, ms): one more pending callback. *)
SetTimeout(tm, fn, step, result, ms) ==
    Append(tm, [fn |-> fn, step |-> step, result |-> result, remaining |-> Ticks(ms)])

(* The handlers below act on a record m of the hook's mutable state:       *)
(* m.state, m.earSamples, m.smoothedEAR, m.currentMetrics, m.antiSpoof and *)
(* m.timers.                                                               *)
Machine ==
    [state |-> state, earSamples |-> earSamples, smoothedEAR |-> smoothedEARRef,
     currentMetrics |-> currentMetricsRef, antiSpoof |-> antiSpoofRef,
     timers |-> timers]

(* enterStep, were it to move the entered step to the head of the order. *)
enterStepReordering(s, step) ==
    [s EXCEPT !.currentStep = step,
              !.stepCompletedAt = FALSE,
              !.alignedFrameCount = 0,
              !.headPoseState = initialHeadPoseState,
              !.blinkState = IF step = "BLINK" THEN initialBlinkState ELSE @,
              !.stepOrder = Swap(@, 1, IndexOf(@, step) + 1)]

(* enterStep, were it to keep the frames held so far. *)
enterStepKeepingHold(s, step) ==
    [s EXCEPT !.currentStep = step,
              !.stepCompletedAt = FALSE,
              !.alignedFrameCount = 0,
              !.blinkState = IF step = "BLINK" THEN initialBlinkState ELSE @]

enterStep(s, step) ==
    [s EXCEPT !.currentStep = step,
              !.stepCompletedAt = FALSE,
              !.alignedFrameCount = 0,
              !.headPoseState = initialHeadPoseState,
              !.blinkState = IF step = "BLINK" THEN initialBlinkState ELSE @]

(* completeStep, were it to record the yaw delta at every completion. *)
completeStepRecordingAll(m, step) ==
    LET stepOrder == m.state.stepOrder
        currentIndex == IndexOf(stepOrder, step)
        isLastStep == currentIndex = Len(stepOrder) - 1
        prev == m.state
        newCompletedSteps == Append(prev.completedSteps, step)
        haveMetrics == m.currentMetrics # NONE /\ prev.baselineMetrics # NONE
        newYawDeltas ==
            IF haveMetrics
            THEN Append(prev.yawDeltas,
                     getYawDelta(m.currentMetrics.yawMetric,
                                 prev.baselineMetrics.yawMetric))
            ELSE prev.yawDeltas
        newPitchDeltas ==
            IF haveMetrics /\ step \in {"TURN_UP", "TURN_DOWN"}
            THEN Append(prev.pitchDeltas,
                     getPitchDelta(m.currentMetrics.pitchMetric,
                                   prev.baselineMetrics.pitchMetric))
            ELSE prev.pitchDeltas
        result ==
            [stepsCompleted |-> newCompletedSteps,
             openEAR |-> prev.blinkState.openEARBaseline,
             blinkThreshold |-> prev.blinkState.closedThreshold,
             yawDeltas |-> newYawDeltas, pitchDeltas |-> newPitchDeltas]
    IN  IF isLastStep
        THEN [m EXCEPT
                !.state = [prev EXCEPT !.currentStep = "SUCCESS",
                                       !.stepCompletedAt = TRUE,
                                       !.completedSteps = newCompletedSteps,
                                       !.yawDeltas = newYawDeltas,
                                       !.pitchDeltas = newPitchDeltas,
                                       !.isComplete = TRUE],
                !.timers = SetTimeout(@, "onSuccess", NULL, result, SUCCESS_DELAY_MS)]
        ELSE [m EXCEPT
                !.state = [prev EXCEPT !.stepCompletedAt = TRUE,
                                       !.completedSteps = newCompletedSteps,
                                       !.yawDeltas = newYawDeltas,
                                       !.pitchDeltas = newPitchDeltas],
                !.timers = SetTimeout(@, "enterStep", stepOrder[currentIndex + 2],
                                      NoResult, STEP_COOLDOWN_MS)]

(* completeStep, were the result to carry the steps completed before this one. *)
completeStepStaleResult(m, step) ==
    LET stepOrder == m.state.stepOrder
        currentIndex == IndexOf(stepOrder, step)
        isLastStep == currentIndex = Len(stepOrder) - 1
        prev == m.state
        newCompletedSteps == Append(prev.completedSteps, step)
        haveMetrics == m.currentMetrics # NONE /\ prev.baselineMetrics # NONE
        newYawDeltas ==
            IF haveMetrics /\ step \in {"TURN_LEFT", "TURN_RIGHT"}
            THEN Append(prev.yawDeltas,
                     getYawDelta(m.currentMetrics.yawMetric,
                                 prev.baselineMetrics.yawMetric))
            ELSE prev.yawDeltas
        newPitchDeltas ==
            IF haveMetrics /\ step \in {"TURN_UP", "TURN_DOWN"}
            THEN Append(prev.pitchDeltas,
                     getPitchDelta(m.currentMetrics.pitchMetric,
                                   prev.baselineMetrics.pitchMetric))
            ELSE prev.pitchDeltas
        result ==
            [stepsCompleted |-> prev.completedSteps,
             openEAR |-> prev.blinkState.openEARBaseline,
             blinkThreshold |-> prev.blinkState.closedThreshold,
             yawDeltas |-> newYawDeltas, pitchDeltas |-> newPitchDeltas]
    IN  IF isLastStep
        THEN [m EXCEPT
                !.state = [prev EXCEPT !.currentStep = "SUCCESS",
                                       !.stepCompletedAt = TRUE,
                                       !.completedSteps = newCompletedSteps,
                                       !.yawDeltas = newYawDeltas,
                                       !.pitchDeltas = newPitchDeltas,
                                       !.isComplete = TRUE],
                !.timers = SetTimeout(@, "onSuccess", NULL, result, SUCCESS_DELAY_MS)]
        ELSE [m EXCEPT
                !.state = [prev EXCEPT !.stepCompletedAt = TRUE,
                                       !.completedSteps = newCompletedSteps,
                                       !.yawDeltas = newYawDeltas,
                                       !.pitchDeltas = newPitchDeltas],
                !.timers = SetTimeout(@, "enterStep", stepOrder[currentIndex + 2],
                                      NoResult, STEP_COOLDOWN_MS)]

completeStep(m, step) ==
    LET stepOrder == m.state.stepOrder
        currentIndex == IndexOf(stepOrder, step)
        isLastStep == currentIndex = Len(stepOrder) - 1
        prev == m.state
        newCompletedSteps == Append(prev.completedSteps, step)
        haveMetrics == m.currentMetrics # NONE /\ prev.baselineMetrics # NONE
        newYawDeltas ==
            IF haveMetrics /\ step \in {"TURN_LEFT", "TURN_RIGHT"}
            THEN Append(prev.yawDeltas,
                     getYawDelta(m.currentMetrics.yawMetric,
                                 prev.baselineMetrics.yawMetric))
            ELSE prev.yawDeltas
        newPitchDeltas ==
            IF haveMetrics /\ step \in {"TURN_UP", "TURN_DOWN"}
            THEN Append(prev.pitchDeltas,
                     getPitchDelta(m.currentMetrics.pitchMetric,
                                   prev.baselineMetrics.pitchMetric))
            ELSE prev.pitchDeltas
        result ==
            [stepsCompleted |-> newCompletedSteps,
             openEAR |-> prev.blinkState.openEARBaseline,
             blinkThreshold |-> prev.blinkState.closedThreshold,
             yawDeltas |-> newYawDeltas, pitchDeltas |-> newPitchDeltas]
    IN  IF isLastStep
        THEN [m EXCEPT
                !.state = [prev EXCEPT !.currentStep = "SUCCESS",
                                       !.stepCompletedAt = TRUE,
                                       !.completedSteps = newCompletedSteps,
                                       !.yawDeltas = newYawDeltas,
                                       !.pitchDeltas = newPitchDeltas,
                                       !.isComplete = TRUE],
                !.timers = SetTimeout(@, "onSuccess", NULL, result, SUCCESS_DELAY_MS)]
        ELSE [m EXCEPT
                !.state = [prev EXCEPT !.stepCompletedAt = TRUE,
                                       !.completedSteps = newCompletedSteps,
                                       !.yawDeltas = newYawDeltas,
                                       !.pitchDeltas = newPitchDeltas],
                !.timers = SetTimeout(@, "enterStep", stepOrder[currentIndex + 2],
                                      NoResult, STEP_COOLDOWN_MS)]

processAlign(m, face, insideGuide) ==
    LET current == m.state
        newAlignedCount == current.alignedFrameCount + 1
        baseline ==
            [yawMetric |-> calculatePoseMetrics(face).yawMetric,
             pitchMetric |-> calculatePoseMetrics(face).pitchMetric,
             rollMetric |-> calculatePoseMetrics(face).rollMetric,
             faceWidth |-> calculateBoundingBox(face).width,
             faceHeight |-> calculateBoundingBox(face).height,
             openEAR |-> calculateAverageEAR(face)]
    IN  IF ~insideGuide
        THEN [m EXCEPT !.state.alignedFrameCount = 0]
        ELSE IF newAlignedCount >= ALIGN_REQUIRED_FRAMES
        THEN completeStep(
                 [m EXCEPT !.state.alignedFrameCount = newAlignedCount,
                           !.state.baselineMetrics = baseline],
                 "ALIGN")
        ELSE [m EXCEPT !.state.alignedFrameCount = newAlignedCount]

(* processBlink without the cooldown check of lines 292-295. *)
processBlinkNoCooldown(m, face) ==
    LET current == m.state
        currentEAR == calculateAverageEAR(face)
        smoothedEAR == ema(currentEAR, m.smoothedEAR, EMA_ALPHA)
        m1 == [m EXCEPT !.smoothedEAR = smoothedEAR]
        nb == current.blinkState
        \* calibration phase: earSamples.push reaches the shared array
        samples == Append(m.earSamples, smoothedEAR)
        frames == nb.calibrationFrames + 1
        avgEAR == sma(samples)
        calibrated ==
            IF frames >= BLINK_CALIBRATION_FRAMES
            THEN [nb EXCEPT !.calibrationFrames = frames,
                            !.openEARBaseline = avgEAR,
                            !.closedThreshold =
                                (avgEAR * CLOSED_THRESHOLD_RATIO + 50) \div 100,
                            !.isCalibrating = FALSE,
                            !.eyeState = "OPEN"]
            ELSE [nb EXCEPT !.calibrationFrames = frames]
        eyeState == getEyeState(smoothedEAR, nb.openEARBaseline, CLOSED_THRESHOLD_RATIO)
        newOpenCount == nb.openFrameCount + 1
    IN  IF nb.isCalibrating
        THEN [m1 EXCEPT !.earSamples = samples, !.state.blinkState = calibrated]
        ELSE IF eyeState = "CLOSED"
        THEN [m1 EXCEPT !.state.blinkState =
                 [nb EXCEPT !.closedFrameCount = @ + 1,
                            !.openFrameCount = 0,
                            !.eyeState = "CLOSED"]]
        ELSE IF eyeState = "OPEN"
        THEN IF nb.closedFrameCount >= CLOSED_FRAME_THRESHOLD
             THEN IF newOpenCount >= OPEN_FRAME_THRESHOLD
                  THEN completeStep(
                           [m1 EXCEPT !.state.blinkState =
                               [nb EXCEPT !.openFrameCount = newOpenCount,
                                          !.blinkDetected = TRUE,
                                          !.sinceLastBlink = 0]],
                           "BLINK")
                  ELSE [m1 EXCEPT !.state.blinkState =
                           [nb EXCEPT !.openFrameCount = newOpenCount,
                                      !.eyeState = "OPEN"]]
             ELSE [m1 EXCEPT !.state.blinkState =
                      [nb EXCEPT !.closedFrameCount = 0, !.eyeState = "OPEN"]]
        ELSE m1

(* processBlink without the reset of line 330: an OPEN frame leaves a      *)
(* closed run that is still below the threshold as it is.                  *)
processBlinkKeepingRun(m, face) ==
    LET current == m.state
        currentEAR == calculateAverageEAR(face)
        smoothedEAR == ema(currentEAR, m.smoothedEAR, EMA_ALPHA)
        m1 == [m EXCEPT !.smoothedEAR = smoothedEAR]
        nb == current.blinkState
        \* calibration phase: earSamples.push reaches the shared array
        samples == Append(m.earSamples, smoothedEAR)
        frames == nb.calibrationFrames + 1
        avgEAR == sma(samples)
        calibrated ==
            IF frames >= BLINK_CALIBRATION_FRAMES
            THEN [nb EXCEPT !.calibrationFrames = frames,
                            !.openEARBaseline = avgEAR,
                            !.closedThreshold =
                                (avgEAR * CLOSED_THRESHOLD_RATIO + 50) \div 100,
                            !.isCalibrating = FALSE,
                            !.eyeState = "OPEN"]
            ELSE [nb EXCEPT !.calibrationFrames = frames]
        eyeState == getEyeState(smoothedEAR, nb.openEARBaseline, CLOSED_THRESHOLD_RATIO)
        newOpenCount == nb.openFrameCount + 1
    IN  IF nb.isCalibrating
        THEN [m1 EXCEPT !.earSamples = samples, !.state.blinkState = calibrated]
        ELSE IF nb.sinceLastBlink < Ticks(BLINK_COOLDOWN_MS)
        THEN m1
        ELSE IF eyeState = "CLOSED"
        THEN [m1 EXCEPT !.state.blinkState =
                 [nb EXCEPT !.closedFrameCount = @ + 1,
                            !.openFrameCount = 0,
                            !.eyeState = "CLOSED"]]
        ELSE IF eyeState = "OPEN"
        THEN IF nb.closedFrameCount >= CLOSED_FRAME_THRESHOLD
             THEN IF newOpenCount >= OPEN_FRAME_THRESHOLD
                  THEN completeStep(
                           [m1 EXCEPT !.state.blinkState =
                               [nb EXCEPT !.openFrameCount = newOpenCount,
                                          !.blinkDetected = TRUE,
                                          !.sinceLastBlink = 0]],
                           "BLINK")
                  ELSE [m1 EXCEPT !.state.blinkState =
                           [nb EXCEPT !.openFrameCount = newOpenCount,
                                      !.eyeState = "OPEN"]]
             ELSE [m1 EXCEPT !.state.blinkState =
                      [nb EXCEPT !.eyeState = "OPEN"]]
        ELSE m1

(* processBlink, were a frame that is not OPEN to count as a closed one. *)
processBlinkCountingUnknown(m, face) ==
    LET current == m.state
        currentEAR == calculateAverageEAR(face)
        smoothedEAR == ema(currentEAR, m.smoothedEAR, EMA_ALPHA)
        m1 == [m EXCEPT !.smoothedEAR = smoothedEAR]
        nb == current.blinkState
        \* calibration phase: earSamples.push reaches the shared array
        samples == Append(m.earSamples, smoothedEAR)
        frames == nb.calibrationFrames + 1
        avgEAR == sma(samples)
        calibrated ==
            IF frames >= BLINK_CALIBRATION_FRAMES
            THEN [nb EXCEPT !.calibrationFrames = frames,
                            !.openEARBaseline = avgEAR,
                            !.closedThreshold =
                                (avgEAR * CLOSED_THRESHOLD_RATIO + 50) \div 100,
                            !.isCalibrating = FALSE,
                            !.eyeState = "OPEN"]
            ELSE [nb EXCEPT !.calibrationFrames = frames]
        eyeState == getEyeState(smoothedEAR, nb.openEARBaseline, CLOSED_THRESHOLD_RATIO)
        newOpenCount == nb.openFrameCount + 1
    IN  IF nb.isCalibrating
        THEN [m1 EXCEPT !.earSamples = samples, !.state.blinkState = calibrated]
        ELSE IF nb.sinceLastBlink < Ticks(BLINK_COOLDOWN_MS)
        THEN m1
        ELSE IF eyeState # "OPEN"
        THEN [m1 EXCEPT !.state.blinkState =
                 [nb EXCEPT !.closedFrameCount = @ + 1,
                            !.openFrameCount = 0,
                            !.eyeState = "CLOSED"]]
        ELSE IF eyeState = "OPEN"
        THEN IF nb.closedFrameCount >= CLOSED_FRAME_THRESHOLD
             THEN IF newOpenCount >= OPEN_FRAME_THRESHOLD
                  THEN completeStep(
                           [m1 EXCEPT !.state.blinkState =
                               [nb EXCEPT !.openFrameCount = newOpenCount,
                                          !.blinkDetected = TRUE,
                                          !.sinceLastBlink = 0]],
                           "BLINK")
                  ELSE [m1 EXCEPT !.state.blinkState =
                           [nb EXCEPT !.openFrameCount = newOpenCount,
                                      !.eyeState = "OPEN"]]
             ELSE [m1 EXCEPT !.state.blinkState =
                      [nb EXCEPT !.closedFrameCount = 0, !.eyeState = "OPEN"]]
        ELSE m1

processBlink(m, face) ==
    LET current == m.state
        currentEAR == calculateAverageEAR(face)
        smoothedEAR == ema(currentEAR, m.smoothedEAR, EMA_ALPHA)
        m1 == [m EXCEPT !.smoothedEAR = smoothedEAR]
        nb == current.blinkState
        \* calibration phase: earSamples.push reaches the shared array
        samples == Append(m.earSamples, smoothedEAR)
        frames == nb.calibrationFrames + 1
        avgEAR == sma(samples)
        calibrated ==
            IF frames >= BLINK_CALIBRATION_FRAMES
            THEN [nb EXCEPT !.calibrationFrames = frames,
                            !.openEARBaseline = avgEAR,
                            !.closedThreshold =
                                (avgEAR * CLOSED_THRESHOLD_RATIO + 50) \div 100,
                            !.isCalibrating = FALSE,
                            !.eyeState = "OPEN"]
            ELSE [nb EXCEPT !.calibrationFrames = frames]
        eyeState == getEyeState(smoothedEAR, nb.openEARBaseline, CLOSED_THRESHOLD_RATIO)
        newOpenCount == nb.openFrameCount + 1
    IN  IF nb.isCalibrating
        THEN [m1 EXCEPT !.earSamples = samples, !.state.blinkState = calibrated]
        ELSE IF nb.sinceLastBlink < Ticks(BLINK_COOLDOWN_MS)
        THEN m1
        ELSE IF eyeState = "CLOSED"
        THEN [m1 EXCEPT !.state.blinkState =
                 [nb EXCEPT !.closedFrameCount = @ + 1,
                            !.openFrameCount = 0,
                            !.eyeState = "CLOSED"]]
        ELSE IF eyeState = "OPEN"
        THEN IF nb.closedFrameCount >= CLOSED_FRAME_THRESHOLD
             THEN IF newOpenCount >= OPEN_FRAME_THRESHOLD
                  THEN completeStep(
                           [m1 EXCEPT !.state.blinkState =
                               [nb EXCEPT !.openFrameCount = newOpenCount,
                                          !.blinkDetected = TRUE,
                                          !.sinceLastBlink = 0]],
                           "BLINK")
                  ELSE [m1 EXCEPT !.state.blinkState =
                           [nb EXCEPT !.openFrameCount = newOpenCount,
                                      !.eyeState = "OPEN"]]
             ELSE [m1 EXCEPT !.state.blinkState =
                      [nb EXCEPT !.closedFrameCount = 0, !.eyeState = "OPEN"]]
        ELSE m1

targetReached(step, yawDelta, pitchDelta) ==
    CASE step = "TURN_LEFT" -> yawDelta <= -YAW_THRESHOLD
      [] step = "TURN_RIGHT" -> yawDelta >= YAW_THRESHOLD
      [] step = "TURN_UP" -> pitchDelta <= -PITCH_THRESHOLD
      [] step = "TURN_DOWN" -> pitchDelta >= PITCH_THRESHOLD
      [] OTHER -> FALSE

FaceMetrics(face) ==
    [yawMetric |-> calculatePoseMetrics(face).yawMetric,
     pitchMetric |-> calculatePoseMetrics(face).pitchMetric,
     rollMetric |-> calculatePoseMetrics(face).rollMetric]

(* processHeadTurn without the check of lines 344-346: a missing baseline  *)
(* is read as the neutral pose.                                            *)
processHeadTurnUnguarded(m, face, step) ==
    LET current == m.state
        poseMetrics == calculatePoseMetrics(face)
        base == IF current.baselineMetrics = NONE
                THEN [yawMetric |-> 0, pitchMetric |-> 0, rollMetric |-> 0]
                ELSE current.baselineMetrics
        m1 == [m EXCEPT !.currentMetrics = FaceMetrics(face)]
        yawDelta == getYawDelta(poseMetrics.yawMetric, base.yawMetric)
        pitchDelta == getPitchDelta(poseMetrics.pitchMetric, base.pitchMetric)
        newHeldFrames == current.headPoseState.heldFrames + 1
        m2 == [m1 EXCEPT !.state.error = NULL]
    IN  IF ~isRollAcceptable(poseMetrics.rollMetric, ROLL_WARNING_THRESHOLD)
        THEN [m1 EXCEPT !.state.error = "Keep your head straight (not tilted)",
                        !.state.headPoseState = initialHeadPoseState]
        ELSE IF targetReached(step, yawDelta, pitchDelta)
        THEN IF newHeldFrames >= POSE_HELD_FRAMES
             THEN completeStep(m2, step)
             ELSE [m2 EXCEPT !.state.headPoseState =
                      [heldFrames |-> newHeldFrames, targetReached |-> TRUE]]
        ELSE [m2 EXCEPT !.state.headPoseState = initialHeadPoseState]

processHeadTurn(m, face, step) ==
    LET current == m.state
        poseMetrics == calculatePoseMetrics(face)
        m1 == [m EXCEPT !.currentMetrics = FaceMetrics(face)]
        yawDelta == getYawDelta(poseMetrics.yawMetric,
                                current.baselineMetrics.yawMetric)
        pitchDelta == getPitchDelta(poseMetrics.pitchMetric,
                                    current.baselineMetrics.pitchMetric)
        newHeldFrames == current.headPoseState.heldFrames + 1
        m2 == [m1 EXCEPT !.state.error = NULL]
    IN  IF current.baselineMetrics = NONE
        THEN m
        ELSE IF ~isRollAcceptable(poseMetrics.rollMetric, ROLL_WARNING_THRESHOLD)
        THEN [m1 EXCEPT !.state.error = "Keep your head straight (not tilted)",
                        !.state.headPoseState = initialHeadPoseState]
        ELSE IF targetReached(step, yawDelta, pitchDelta)
        THEN IF newHeldFrames >= POSE_HELD_FRAMES
             THEN completeStep(m2, step)
             ELSE [m2 EXCEPT !.state.headPoseState =
                      [heldFrames |-> newHeldFrames, targetReached |-> TRUE]]
        ELSE [m2 EXCEPT !.state.headPoseState = initialHeadPoseState]

(* processFace without the spoof check of lines 460-469. *)
processFaceTrusting(m, face, guideBox) ==
    LET current == m.state
        faceBbox == calculateBoundingBox(face)
        insideGuide == isFaceInsideGuide(faceBbox, guideBox, INSIDE_GUIDE_MARGIN)
        analysed == updateAntiSpoofState(m.antiSpoof, face)
        m1 == [m EXCEPT !.antiSpoof = analysed]
        m2 == [m1 EXCEPT !.currentMetrics = FaceMetrics(face)]
        m3 == IF insideGuide /\ current.currentStep # "ALIGN"
              THEN [m2 EXCEPT !.state.error = NULL]
              ELSE m2
    IN  IF current.isComplete \/ current.currentStep \in {"IDLE", "SUCCESS"}
        THEN m
        ELSE IF face = NONE
        THEN [m EXCEPT !.state.error = "No face detected. Move into the frame.",
                       !.state.alignedFrameCount = 0,
                       !.state.headPoseState = initialHeadPoseState]
        ELSE IF faceBbox.width * 100 < MIN_FACE_RATIO * guideBox.width
        THEN [m EXCEPT !.state.error = "Move closer to the camera"]
        ELSE IF faceBbox.width * 100 > MAX_FACE_RATIO * guideBox.width
        THEN [m EXCEPT !.state.error = "Move further from the camera"]
        ELSE IF current.currentStep = "ALIGN"
        THEN IF ~insideGuide
             THEN [m3 EXCEPT !.state.error = "Move your face inside the box",
                             !.state.alignedFrameCount = 0]
             ELSE processAlign([m3 EXCEPT !.state.error = NULL], face, insideGuide)
        ELSE IF current.currentStep = "BLINK"
        THEN processBlink(m3, face)
        ELSE IF current.currentStep \in TurnSteps
        THEN processHeadTurn(m3, face, current.currentStep)
        ELSE m3

(* processFace, were a frame without a face to discard the baseline as well. *)
processFaceForgetting(m, face, guideBox) ==
    LET current == m.state
        faceBbox == calculateBoundingBox(face)
        insideGuide == isFaceInsideGuide(faceBbox, guideBox, INSIDE_GUIDE_MARGIN)
        analysed == updateAntiSpoofState(m.antiSpoof, face)
        m1 == [m EXCEPT !.antiSpoof = analysed]
        m2 == [m1 EXCEPT !.currentMetrics = FaceMetrics(face)]
        m3 == IF insideGuide /\ current.currentStep # "ALIGN"
              THEN [m2 EXCEPT !.state.error = NULL]
              ELSE m2
    IN  IF current.isComplete \/ current.currentStep \in {"IDLE", "SUCCESS"}
        THEN m
        ELSE IF face = NONE
        THEN [m EXCEPT !.state.error = "No face detected. Move into the frame.",
                       !.state.baselineMetrics = NONE,
                       !.state.alignedFrameCount = 0,
                       !.state.headPoseState = initialHeadPoseState]
        ELSE IF faceBbox.width * 100 < MIN_FACE_RATIO * guideBox.width
        THEN [m EXCEPT !.state.error = "Move closer to the camera"]
        ELSE IF faceBbox.width * 100 > MAX_FACE_RATIO * guideBox.width
        THEN [m EXCEPT !.state.error = "Move further from the camera"]
        ELSE IF analysed.isSpoof
        THEN [m1 EXCEPT
                !.state.error =
                    IF analysed.reason # NULL THEN analysed.reason
                    ELSE "Photo or screen detected. Use a real face.",
                !.state.alignedFrameCount = 0,
                !.state.headPoseState = initialHeadPoseState]
        ELSE IF current.currentStep = "ALIGN"
        THEN IF ~insideGuide
             THEN [m3 EXCEPT !.state.error = "Move your face inside the box",
                             !.state.alignedFrameCount = 0]
             ELSE processAlign([m3 EXCEPT !.state.error = NULL], face, insideGuide)
        ELSE IF current.currentStep = "BLINK"
        THEN processBlink(m3, face)
        ELSE IF current.currentStep \in TurnSteps
        THEN processHeadTurn(m3, face, current.currentStep)
        ELSE m3

(* processFace, were a face outside the size band to reset the counters as a missing face does. *)
processFaceStrict(m, face, guideBox) ==
    LET current == m.state
        faceBbox == calculateBoundingBox(face)
        insideGuide == isFaceInsideGuide(faceBbox, guideBox, INSIDE_GUIDE_MARGIN)
        analysed == updateAntiSpoofState(m.antiSpoof, face)
        m1 == [m EXCEPT !.antiSpoof = analysed]
        m2 == [m1 EXCEPT !.currentMetrics = FaceMetrics(face)]
        m3 == IF insideGuide /\ current.currentStep # "ALIGN"
              THEN [m2 EXCEPT !.state.error = NULL]
              ELSE m2
    IN  IF current.isComplete \/ current.currentStep \in {"IDLE", "SUCCESS"}
        THEN m
        ELSE IF face = NONE
        THEN [m EXCEPT !.state.error = "No face detected. Move into the frame.",
                       !.state.alignedFrameCount = 0,
                       !.state.headPoseState = initialHeadPoseState]
        ELSE IF faceBbox.width * 100 < MIN_FACE_RATIO * guideBox.width
        THEN [m EXCEPT !.state.error = "Move closer to the camera",
                       !.state.alignedFrameCount = 0,
                       !.state.headPoseState = initialHeadPoseState]
        ELSE IF faceBbox.width * 100 > MAX_FACE_RATIO * guideBox.width
        THEN [m EXCEPT !.state.error = "Move further from the camera",
                       !.state.alignedFrameCount = 0,
                       !.state.headPoseState = initialHeadPoseState]
        ELSE IF analysed.isSpoof
        THEN [m1 EXCEPT
                !.state.error =
                    IF analysed.reason # NULL THEN analysed.reason
                    ELSE "Photo or screen detected. Use a real face.",
                !.state.alignedFrameCount = 0,
                !.state.headPoseState = initialHeadPoseState]
        ELSE IF current.currentStep = "ALIGN"
        THEN IF ~insideGuide
             THEN [m3 EXCEPT !.state.error = "Move your face inside the box",
                             !.state.alignedFrameCount = 0]
             ELSE processAlign([m3 EXCEPT !.state.error = NULL], face, insideGuide)
        ELSE IF current.currentStep = "BLINK"
        THEN processBlink(m3, face)
        ELSE IF current.currentStep \in TurnSteps
        THEN processHeadTurn(m3, face, current.currentStep)
        ELSE m3

(* processFace, were a frame without a face to set the error only. *)
processFaceLenient(m, face, guideBox) ==
    LET current == m.state
        faceBbox == calculateBoundingBox(face)
        insideGuide == isFaceInsideGuide(faceBbox, guideBox, INSIDE_GUIDE_MARGIN)
        analysed == updateAntiSpoofState(m.antiSpoof, face)
        m1 == [m EXCEPT !.antiSpoof = analysed]
        m2 == [m1 EXCEPT !.currentMetrics = FaceMetrics(face)]
        m3 == IF insideGuide /\ current.currentStep # "ALIGN"
              THEN [m2 EXCEPT !.state.error = NULL]
              ELSE m2
    IN  IF current.isComplete \/ current.currentStep \in {"IDLE", "SUCCESS"}
        THEN m
        ELSE IF face = NONE
        THEN [m EXCEPT !.state.error = "No face detected. Move into the frame."]
        ELSE IF faceBbox.width * 100 < MIN_FACE_RATIO * guideBox.width
        THEN [m EXCEPT !.state.error = "Move closer to the camera"]
        ELSE IF faceBbox.width * 100 > MAX_FACE_RATIO * guideBox.width
        THEN [m EXCEPT !.state.error = "Move further from the camera"]
        ELSE IF analysed.isSpoof
        THEN [m1 EXCEPT
                !.state.error =
                    IF analysed.reason # NULL THEN analysed.reason
                    ELSE "Photo or screen detected. Use a real face.",
                !.state.alignedFrameCount = 0,
                !.state.headPoseState = initialHeadPoseState]
        ELSE IF current.currentStep = "ALIGN"
        THEN IF ~insideGuide
             THEN [m3 EXCEPT !.state.error = "Move your face inside the box",
                             !.state.alignedFrameCount = 0]
             ELSE processAlign([m3 EXCEPT !.state.error = NULL], face, insideGuide)
        ELSE IF current.currentStep = "BLINK"
        THEN processBlink(m3, face)
        ELSE IF current.currentStep \in TurnSteps
        THEN processHeadTurn(m3, face, current.currentStep)
        ELSE m3

(* processFace, were a spoof verdict to start the blink over. *)
processFaceDroppingBlink(m, face, guideBox) ==
    LET current == m.state
        faceBbox == calculateBoundingBox(face)
        insideGuide == isFaceInsideGuide(faceBbox, guideBox, INSIDE_GUIDE_MARGIN)
        analysed == updateAntiSpoofState(m.antiSpoof, face)
        m1 == [m EXCEPT !.antiSpoof = analysed]
        m2 == [m1 EXCEPT !.currentMetrics = FaceMetrics(face)]
        m3 == IF insideGuide /\ current.currentStep # "ALIGN"
              THEN [m2 EXCEPT !.state.error = NULL]
              ELSE m2
    IN  IF current.isComplete \/ current.currentStep \in {"IDLE", "SUCCESS"}
        THEN m
        ELSE IF face = NONE
        THEN [m EXCEPT !.state.error = "No face detected. Move into the frame.",
                       !.state.alignedFrameCount = 0,
                       !.state.headPoseState = initialHeadPoseState]
        ELSE IF faceBbox.width * 100 < MIN_FACE_RATIO * guideBox.width
        THEN [m EXCEPT !.state.error = "Move closer to the camera"]
        ELSE IF faceBbox.width * 100 > MAX_FACE_RATIO * guideBox.width
        THEN [m EXCEPT !.state.error = "Move further from the camera"]
        ELSE IF analysed.isSpoof
        THEN [m1 EXCEPT
                !.state.blinkState = initialBlinkState,
                !.state.error =
                    IF analysed.reason # NULL THEN analysed.reason
                    ELSE "Photo or screen detected. Use a real face.",
                !.state.alignedFrameCount = 0,
                !.state.headPoseState = initialHeadPoseState]
        ELSE IF current.currentStep = "ALIGN"
        THEN IF ~insideGuide
             THEN [m3 EXCEPT !.state.error = "Move your face inside the box",
                             !.state.alignedFrameCount = 0]
             ELSE processAlign([m3 EXCEPT !.state.error = NULL], face, insideGuide)
        ELSE IF current.currentStep = "BLINK"
        THEN processBlink(m3, face)
        ELSE IF current.currentStep \in TurnSteps
        THEN processHeadTurn(m3, face, current.currentStep)
        ELSE m3

(* processFace(face, guideBox); face is NONE when no face was detected. *)
processFace(m, face, guideBox) ==
    LET current == m.state
        faceBbox == calculateBoundingBox(face)
        insideGuide == isFaceInsideGuide(faceBbox, guideBox, INSIDE_GUIDE_MARGIN)
        analysed == updateAntiSpoofState(m.antiSpoof, face)
        m1 == [m EXCEPT !.antiSpoof = analysed]
        m2 == [m1 EXCEPT !.currentMetrics = FaceMetrics(face)]
        m3 == IF insideGuide /\ current.currentStep # "ALIGN"
              THEN [m2 EXCEPT !.state.error = NULL]
              ELSE m2
    IN  IF current.isComplete \/ current.currentStep \in {"IDLE", "SUCCESS"}
        THEN m
        ELSE IF face = NONE
        THEN [m EXCEPT !.state.error = "No face detected. Move into the frame.",
                       !.state.alignedFrameCount = 0,
                       !.state.headPoseState = initialHeadPoseState]
        ELSE IF faceBbox.width * 100 < MIN_FACE_RATIO * guideBox.width
        THEN [m EXCEPT !.state.error = "Move closer to the camera"]
        ELSE IF faceBbox.width * 100 > MAX_FACE_RATIO * guideBox.width
        THEN [m EXCEPT !.state.error = "Move further from the camera"]
        ELSE IF analysed.isSpoof
        THEN [m1 EXCEPT
                !.state.error =
                    IF analysed.reason # NULL THEN analysed.reason
                    ELSE "Photo or screen detected. Use a real face.",
                !.state.alignedFrameCount = 0,
                !.state.headPoseState = initialHeadPoseState]
        ELSE IF current.currentStep = "ALIGN"
        THEN IF ~insideGuide
             THEN [m3 EXCEPT !.state.error = "Move your face inside the box",
                             !.state.alignedFrameCount = 0]
             ELSE processAlign([m3 EXCEPT !.state.error = NULL], face, insideGuide)
        ELSE IF current.currentStep = "BLINK"
        THEN processBlink(m3, face)
        ELSE IF current.currentStep \in TurnSteps
        THEN processHeadTurn(m3, face, current.currentStep)
        ELSE m3

----------------------------------------------------------------------------
(* Frames.  The faces a detection can report, by what the gates read.      *)

NoFace == NONE

Neutral == [yawMetric |-> 0, pitchMetric |-> 0, rollMetric |-> 0]

(* The pose a turn step asks for, seen from a neutral baseline. *)
PoseFor(step) ==
    CASE step = "TURN_LEFT" -> [yawMetric |-> -10, pitchMetric |-> 0, rollMetric |-> 0]
      [] step = "TURN_RIGHT" -> [yawMetric |-> 10, pitchMetric |-> 0, rollMetric |-> 0]
      [] step = "TURN_UP" -> [yawMetric |-> 0, pitchMetric |-> -8, rollMetric |-> 0]
      [] step = "TURN_DOWN" -> [yawMetric |-> 0, pitchMetric |-> 8, rollMetric |-> 0]
      [] OTHER -> Neutral

OpenEAR == 30
ClosedEAR == 5

(* A face of in-band size inside the guide box, with real depth. *)
Face(pose, ear) ==
    [x |-> 220, y |-> 100, width |-> 200, height |-> 250,
     yawMetric |-> pose.yawMetric, pitchMetric |-> pose.pitchMetric,
     rollMetric |-> pose.rollMetric, avgEAR |-> ear,
     centerX |-> 320, centerY |-> 225, avgZ |-> 0, zVariance |-> 100]

(* A living subject is never perfectly still: the keypoint centroid of a   *)
(* frame differs from the one of the frame before it.                      *)
Live(face) ==
    LET h == antiSpoofRef.frameHistory
    IN  IF Len(h) > 0 /\ h[Len(h)].centerX = face.centerX
        THEN [face EXCEPT !.centerX = @ + 2]
        ELSE face

(* The frames of a user who follows the prompts: facing the camera, or in  *)
(* the pose the displayed step asks for.                                   *)
PromptedFaces ==
    {Face(Neutral, OpenEAR), Face(PoseFor(state.currentStep), OpenEAR)}

(* Eyes closed only when asked to blink, and in one run: the eyes start to *)
(* close from fully open and stay closed until they open again.            *)
BlinkFaces ==
    IF /\ state.currentStep = "BLINK"
       /\ ~state.blinkState.isCalibrating
       /\ \/ smoothedEARRef = OpenEAR
          \/ smoothedEARRef = ema(ClosedEAR, OpenEAR, EMA_ALPHA)
          \/ state.blinkState.eyeState = "CLOSED"
    THEN {Face(Neutral, ClosedEAR)}
    ELSE {}

----------------------------------------------------------------------------
(* History of the blink detection.  eyeRuns records, for the frames that   *)
(* processBlink classified since BLINK was calibrated, the length of the   *)
(* last run of consecutive CLOSED frames and the length of the run of      *)
(* consecutive OPEN frames that follows it (0 while the eyes are closed).  *)
(* It is written by no handler and read by none.                           *)

NoRuns == [closed |-> 0, open |-> 0]

(* The frame passes processFace's checks and reaches the step's gate. *)
ReachesGate(face) ==
    /\ ~state.isComplete
    /\ state.currentStep \notin {"IDLE", "SUCCESS"}
    /\ face # NONE
    /\ calculateBoundingBox(face).width * 100 >= MIN_FACE_RATIO * calculateGuideBox.width
    /\ calculateBoundingBox(face).width * 100 <= MAX_FACE_RATIO * calculateGuideBox.width
    /\ ~updateAntiSpoofState(antiSpoofRef, face).isSpoof

(* The class processBlink gives a frame of the face: the eye state of the  *)
(* smoothed EAR against the calibrated baseline.                           *)
EyeClass(face) ==
    getEyeState(ema(calculateAverageEAR(face), smoothedEARRef, EMA_ALPHA),
                state.blinkState.openEARBaseline, CLOSED_THRESHOLD_RATIO)

(* BLINK is displayed, calibrated, and the blink cooldown is over: the     *)
(* next frame that reaches processBlink is classified.                     *)
Detecting ==
    /\ state.currentStep = "BLINK"
    /\ ~state.blinkState.isCalibrating
    /\ state.blinkState.sinceLastBlink >= Ticks(BLINK_COOLDOWN_MS)

(* The frame is one processBlink classifies as OPEN or CLOSED. *)
Classified(face) ==
    /\ ReachesGate(face)
    /\ Detecting
    /\ EyeClass(face) \in {"OPEN", "CLOSED"}

(* The runs after a classified frame; a run's length is counted up to the  *)
(* threshold it is compared with.                                          *)
RunsWith(runs, class) ==
    IF class = "CLOSED"
    THEN [closed |-> IF runs.open > 0 THEN 1
                     ELSE IF runs.closed < CLOSED_FRAME_THRESHOLD
                          THEN runs.closed + 1 ELSE runs.closed,
          open |-> 0]
    ELSE [runs EXCEPT !.open = IF @ < OPEN_FRAME_THRESHOLD THEN @ + 1 ELSE @]

(* The history is kept while BLINK is displayed and calibrated. *)
Runs(s, runs) ==
    IF s.currentStep = "BLINK" /\ ~s.blinkState.isCalibrating THEN runs ELSE NoRuns

----------------------------------------------------------------------------
(* The frame loop (hooks/useRafThrottleLoop.ts).  Time is counted in       *)
(* periods of the display: an animation-frame callback gets the time of    *)
(* the period in which it runs.                                            *)

TARGET_FPS == 12
RafPeriodMs == 16

(* frameInterval = 1000 / targetFPS, in whole milliseconds. *)
frameInterval == 1000 \div TARGET_FPS

(* Periods after which timestamp - lastFrameTimeRef.current has reached    *)
(* frameInterval; a longer time is counted as this one.                    *)
PeriodsPerInterval == (frameInterval + RafPeriodMs - 1) \div RafPeriodMs

(* The loop of a mounted component that was not started.  pending holds    *)
(* the callbacks requestAnimationFrame has queued: en is the `enabled` the *)
(* closure captured, ref tells that rafRef.current is the id of the        *)
(* callback.  rafRef is NULL, "pending" (the id of a queued callback) or   *)
(* "fired" (the id of a callback that has run).  running holds, for every  *)
(* onFrame call whose promise has not settled, the periods since its       *)
(* timestamp; age is the periods since lastFrameTimeRef.current, which     *)
(* starts at 0, long before the first timestamp.  blocked records that a   *)
(* callback returned at the inFlightRef check since the call began, failed *)
(* that the last onFrame call to settle rejected (the promise of that loop *)
(* call rejected with it).  detection is the detectFaces call onFrame is   *)
(* waiting for: the face it will report and the session it was begun in   *)
(* (0 when no call is pending).                                            *)
NoDetection == [face |-> [null |-> TRUE], session |-> 0]

initialLoop ==
    [enabled |-> FALSE, effectPending |-> FALSE, pending |-> <<>>,
     rafRef |-> NULL, inFlight |-> FALSE, running |-> <<>>,
     age |-> PeriodsPerInterval, blocked |-> FALSE, failed |-> FALSE,
     detection |-> NoDetection]

----------------------------------------------------------------------------
(* Actions.                                                                *)

Init ==
    /\ state = initialState
    /\ earSamples = <<>>
    /\ smoothedEARRef = 0
    /\ currentMetricsRef = NONE
    /\ antiSpoofRef = createAntiSpoofState
    /\ timers = <<>>
    /\ results = <<>>
    /\ sessions = 0
    /\ eyeRuns = NoRuns
    /\ loop = initialLoop

Apply(m) ==
    /\ state' = m.state
    /\ earSamples' = m.earSamples
    /\ smoothedEARRef' = m.smoothedEAR
    /\ currentMetricsRef' = m.currentMetrics
    /\ antiSpoofRef' = m.antiSpoof
    /\ timers' = m.timers

(* start(), with the order generateRandomStepOrder() returned. *)
start(m, randomizedOrder) ==
    [m EXCEPT !.smoothedEAR = 0,
              !.currentMetrics = NONE,
              !.antiSpoof = createAntiSpoofState,
              !.state = [initialState EXCEPT !.stepOrder = randomizedOrder,
                                             !.currentStep = "ALIGN"]]

restart(m) ==
    [m EXCEPT !.smoothedEAR = 0,
              !.currentMetrics = NONE,
              !.antiSpoof = createAntiSpoofState,
              !.state = initialState,
              !.timers = SetTimeout(@, "start", NULL, NoResult, RESTART_DELAY_MS)]

(* handleStart: the start button is shown until the first session begins. *)
Start ==
    /\ sessions = 0
    /\ \E order \in generateRandomStepOrder : Apply(start(Machine, order))
    /\ sessions' = sessions + 1
    /\ eyeRuns' = Runs(state', eyeRuns)
    /\ UNCHANGED <<results, loop>>

(* handleRestart: the restart button of a started component. *)
Restart ==
    /\ sessions > 0
    /\ sessions < MaxSessions
    /\ Apply(restart(Machine))
    /\ sessions' = sessions + 1
    /\ eyeRuns' = Runs(state', eyeRuns)
    /\ UNCHANGED <<results, loop>>

(* Entries of a step list beyond the first one of each step. *)
Repeats(s) == Len(s) - Cardinality({s[i] : i \in 1..Len(s)})

(* The timer that fires next: the first one scheduled among those due. *)
Due == {i \in 1..Len(timers) : timers[i].remaining = 0}

NextDue == CHOOSE i \in Due : \A j \in Due : i <= j

Without(tm, i) == SubSeq(tm, 1, i - 1) \o SubSeq(tm, i + 1, Len(tm))

(* TICK_MS of wall-clock time pass: every pending delay shrinks and the    *)
(* time since the last blink grows.                                        *)
Elapse(m) ==
    [m EXCEPT !.timers = [i \in 1..Len(m.timers) |->
                             [m.timers[i] EXCEPT !.remaining =
                                 IF @ > 0 THEN @ - 1 ELSE 0]],
              !.state.blinkState.sinceLastBlink =
                  IF @ < Ticks(BLINK_COOLDOWN_MS) THEN @ + 1 ELSE @]

(* One turn of the frame loop: the detection result is handed to           *)
(* processFace and the frame interval passes.  A timer that is due fires   *)
(* before the next frame.                                                  *)
Frame(face) ==
    LET m == processFace(Machine, face, calculateGuideBox)
    IN  /\ Due = {}
        /\ Repeats(m.state.completedSteps) <= MaxRepeats
        /\ m.state.blinkState.closedFrameCount <= MaxClosedRun
        /\ Len(m.earSamples) <= MaxSamples
        /\ Apply(Elapse(m))
        /\ eyeRuns' = Runs(state', IF Classified(face)
                                   THEN RunsWith(eyeRuns, EyeClass(face))
                                   ELSE eyeRuns)
        /\ UNCHANGED <<loop, results, sessions>>

ProcessFace == \E f \in PromptedFaces \cup BlinkFaces : Frame(Live(f))

ProcessNoFace == Frame(NoFace)

TimerEnterStep ==
    /\ Due # {}
    /\ timers[NextDue].fn = "enterStep"
    /\ state' = enterStep(state, timers[NextDue].step)
    /\ timers' = Without(timers, NextDue)
    /\ eyeRuns' = Runs(state', eyeRuns)
    /\ UNCHANGED <<loop, earSamples, smoothedEARRef, currentMetricsRef, antiSpoofRef,
                   results, sessions>>

TimerStart ==
    /\ Due # {}
    /\ timers[NextDue].fn = "start"
    /\ \E order \in generateRandomStepOrder :
          Apply(start([Machine EXCEPT !.timers = Without(timers, NextDue)], order))
    /\ eyeRuns' = Runs(state', eyeRuns)
    /\ UNCHANGED <<loop, results, sessions>>

TimerOnSuccess ==
    /\ Due # {}
    /\ timers[NextDue].fn = "onSuccess"
    /\ results' = Append(results, timers[NextDue].result)
    /\ timers' = Without(timers, NextDue)
    /\ UNCHANGED <<loop, state, earSamples, smoothedEARRef, currentMetricsRef,
                   antiSpoofRef, sessions, eyeRuns>>

(* A frame interval in which no detection result arrives. *)
Tick ==
    /\ Due = {}
    /\ Apply(Elapse(Machine))
    /\ UNCHANGED <<loop, results, sessions, eyeRuns>>

Next ==
    \/ Start
    \/ Restart
    \/ ProcessFace
    \/ ProcessNoFace
    \/ TimerEnterStep
    \/ TimerStart
    \/ TimerOnSuccess
    \/ Tick

Spec == Init /\ [][Next]_vars

----------------------------------------------------------------------------
(* Properties of the step sequencer.                                       *)

Elements(s) == {s[i] : i \in 1..Len(s)}

IsPermutation(order) ==
    Len(order) = Len(STEP_ORDER) /\ Elements(order) = ChallengeSteps

(* The first entry of order that is not in done; NULL when all are. *)
FirstPending(order, done) ==
    LET pending == {i \in 1..Len(order) : order[i] \notin Elements(done)}
    IN  IF pending = {} THEN NULL
        ELSE order[CHOOSE i \in pending : \A j \in pending : i <= j]

(* The session runs the steps in the canonical order, the order every      *)
(* shuffle can return and the one code and generator agree on.             *)
CanonicalOrder == state.stepOrder = STEP_ORDER

(* Between a step's completion and the entry of the next step. *)
InCooldown == state.currentStep \in ChallengeSteps /\ state.stepCompletedAt

GateCounters(s) ==
    <<s.alignedFrameCount, s.headPoseState.heldFrames,
      s.blinkState.calibrationFrames, s.blinkState.closedFrameCount,
      s.blinkState.openFrameCount>>

(* C1: in every reachable state completedSteps is a prefix of stepOrder.   *)
(* Stated for the sessions in the canonical order, where ALIGN, the step   *)
(* start() enters, is the first of the order.                              *)
C1_CompletedIsPrefix ==
    CanonicalOrder => IsPrefix(state.completedSteps, state.stepOrder)

(* C2: within one session every challenge step is appended to              *)
(* completedSteps at most once, whatever frames arrive, also during the    *)
(* cooldown that follows a completion.                                     *)
C2_SingleTransition == Repeats(state.completedSteps) = 0

(* C3: whenever a session is complete (SUCCESS), completedSteps has        *)
(* exactly six entries and yawDeltas and pitchDeltas two each.  Stated for *)
(* the sessions in the canonical order.                                    *)
C3_SuccessResult ==
    CanonicalOrder /\ state.isComplete =>
        /\ Len(state.completedSteps) = Len(STEP_ORDER)
        /\ Len(state.yawDeltas) = 2
        /\ Len(state.pitchDeltas) = 2

(* C4: a step-advance timer left pending by the session that restart() or  *)
(* start() replaced does not change the new session's currentStep: while   *)
(* the session has completed no step, so that every pending enterStep is   *)
(* one of an earlier session, a firing enterStep leaves currentStep alone. *)
C4_RestartAtomic ==
    [][state.currentStep \in ChallengeSteps /\ state.completedSteps = <<>>
         /\ TimerEnterStep
       => state'.currentStep = state.currentStep]_vars

(* C5: on every entry to BLINK the sample set is empty, so that during and *)
(* after calibration it holds exactly the samples collected since that     *)
(* entry, one for each calibration frame counted.  Stated for BLINK        *)
(* entered after ALIGN, and ALIGN alone, was completed in the session.     *)
C5_FreshCalibration ==
    state.currentStep = "BLINK" /\ state.completedSteps = <<"ALIGN">> =>
        Len(earSamples) = state.blinkState.calibrationFrames

(* C6: in every reachable state currentStep is IDLE, SUCCESS or the first  *)
(* entry of stepOrder that is not in completedSteps.  Stated for the       *)
(* sessions in the canonical order.                                        *)
C6_CurrentIsFirstPending ==
    CanonicalOrder =>
        state.currentStep \in
            {"IDLE", "SUCCESS", FirstPending(state.stepOrder, state.completedSteps)}

C8_NoSkip ==
    [][/\ state'.currentStep # state.currentStep
       /\ state'.stepOrder = STEP_ORDER
       /\ Repeats(state'.completedSteps) = 0
       /\ timers' = <<>>
       => /\ state'.currentStep \in ChallengeSteps =>
                /\ IsPrefix(state'.completedSteps, state'.stepOrder)
                /\ Len(state'.completedSteps) < Len(STEP_ORDER)
                /\ state'.currentStep =
                       state'.stepOrder[Len(state'.completedSteps) + 1]
          /\ state'.currentStep = "SUCCESS" =>
                state'.completedSteps = state'.stepOrder]_vars

(* C9: in every reachable state stepOrder is a permutation of the six      *)
(* challenge steps, and only start() and restart() change it: no frame and *)
(* no enterStep or onSuccess timer does.                                   *)
C9_StepOrderFixed ==
    /\ [](IsPermutation(state.stepOrder))
    /\ [][state'.stepOrder # state.stepOrder
          => Start \/ Restart \/ TimerStart]_vars

(* C9, its case: a session in a shuffled order in which a pending          *)
(* enterStep has fired and frames were processed since start().            *)
C9_Witness ==
    /\ ~CanonicalOrder
    /\ state.currentStep = "BLINK"
    /\ Len(antiSpoofRef.frameHistory) > 0

(* C10: during the cooldown a frame changes neither completedSteps,        *)
(* baselineMetrics, yawDeltas, pitchDeltas nor a gate counter, and         *)
(* schedules no timer.                                                     *)
C10_CooldownIgnoresFrames ==
    [][InCooldown /\ (ProcessFace \/ ProcessNoFace)
       => /\ state'.completedSteps = state.completedSteps
          /\ state'.baselineMetrics = state.baselineMetrics
          /\ state'.yawDeltas = state.yawDeltas
          /\ state'.pitchDeltas = state.pitchDeltas
          /\ GateCounters(state') = GateCounters(state)
          /\ Len(timers') = Len(timers)]_vars


----------------------------------------------------------------------------
(* Properties of the gates.                                                *)

(* C12: the head-pose gate fails closed: a frame processed in a TURN step  *)
(* while baselineMetrics is null completes no step and does not advance    *)
(* headPoseState (heldFrames does not grow, targetReached is not set).     *)
C12_HeadTurnFailsClosed ==
    [][/\ state.currentStep \in TurnSteps
       /\ state.baselineMetrics = NONE
       /\ (ProcessFace \/ ProcessNoFace)
       => /\ state'.completedSteps = state.completedSteps
          /\ state'.headPoseState.heldFrames <= state.headPoseState.heldFrames
          /\ state'.headPoseState.targetReached
                => state.headPoseState.targetReached]_vars

(* C12, its case: a TURN step of a session without baseline in which a     *)
(* frame holding the pose the step asks for has been processed.            *)
C12_Witness ==
    /\ state.currentStep \in TurnSteps
    /\ state.baselineMetrics = NONE
    /\ currentMetricsRef = PoseFor(state.currentStep)
    /\ state.error = NULL

(* C16: an OPEN-classified frame that arrives while closedFrameCount is    *)
(* below CLOSED_FRAME_THRESHOLD sets closedFrameCount to 0 and completes   *)
(* nothing: an interrupted closed run yields no blink event.               *)
C16_InterruptedRunResets ==
    [][\A f \in PromptedFaces \cup BlinkFaces :
          /\ Detecting
          /\ state.blinkState.closedFrameCount < CLOSED_FRAME_THRESHOLD
          /\ EyeClass(Live(f)) = "OPEN"
          /\ Frame(Live(f))
          => /\ state'.blinkState.closedFrameCount = 0
             /\ ~state'.blinkState.blinkDetected
             /\ state'.completedSteps = state.completedSteps]_vars

(* C16, its case: the eyes opened after a closed run of one frame.  The    *)
(* smoothed EAR is below the value one closing frame gives it, so a second *)
(* one was classified CLOSED, and the OPEN frame after it emptied the run. *)
C16_Witness ==
    /\ state.currentStep = "BLINK"
    /\ state.blinkState.eyeState = "OPEN"
    /\ state.blinkState.closedFrameCount = 0
    /\ smoothedEARRef < ema(ClosedEAR, OpenEAR, EMA_ALPHA)
    /\ ~state.blinkState.blinkDetected

(* C15: a blink is one event.  A frame processed within BLINK_COOLDOWN_MS  *)
(* of the detected blink leaves the blink state as it is, and while BLINK  *)
(* is still displayed after its completion no frame completes a step       *)
(* again: the next step is entered, STEP_COOLDOWN_MS after the completion, *)
(* before the blink cooldown ends.                                         *)
C15_OneBlinkEvent ==
    [][/\ state.currentStep = "BLINK"
       /\ state.blinkState.blinkDetected
       /\ (ProcessFace \/ ProcessNoFace)
       => /\ state.blinkState.sinceLastBlink < Ticks(BLINK_COOLDOWN_MS)
          /\ state'.blinkState =
                 [state.blinkState EXCEPT
                     !.sinceLastBlink = state'.blinkState.sinceLastBlink]
          /\ state'.completedSteps = state.completedSteps
          /\ Len(timers') = Len(timers)]_vars

(* C15, its case: BLINK is completed and still displayed, and more open    *)
(* frames than the two that end a blink have been smoothed in: a frame was *)
(* processed within the cooldown of the blink.                             *)
C15_Witness ==
    /\ state.currentStep = "BLINK"
    /\ state.stepCompletedAt
    /\ state.blinkState.blinkDetected
    /\ state.blinkState.sinceLastBlink < Ticks(BLINK_COOLDOWN_MS)
    /\ smoothedEARRef >
           ema(OpenEAR, ema(OpenEAR, state.blinkState.closedThreshold, EMA_ALPHA),
               EMA_ALPHA)

----------------------------------------------------------------------------
(* The blink gate alone, with the eyes free to close and open on any frame *)
(* once BLINK is calibrated.  The session is followed up to the end of     *)
(* BLINK.                                                                  *)

(* The EAR of eyes opened wide. *)
WideEAR == 45

EyeFaces ==
    IF state.currentStep = "BLINK" /\ ~state.blinkState.isCalibrating
    THEN {Face(Neutral, ClosedEAR), Face(Neutral, OpenEAR), Face(Neutral, WideEAR)}
    ELSE {Face(Neutral, OpenEAR)}

BlinkFrame ==
    /\ state.currentStep \in {"ALIGN", "BLINK"}
    /\ \E f \in EyeFaces : Frame(Live(f))

BlinkNext ==
    \/ Start
    \/ BlinkFrame
    \/ TimerEnterStep
    \/ TimerOnSuccess
    \/ Tick

BlinkSpec == Init /\ [][BlinkNext]_vars

(* C14: BLINK is completed only by a frame that ends a run of at least     *)
(* OPEN_FRAME_THRESHOLD consecutive OPEN-classified frames which is        *)
(* immediately preceded by a run of at least CLOSED_FRAME_THRESHOLD        *)
(* consecutive CLOSED-classified frames.                                   *)
C14_BlinkNeedsClosedRun ==
    [][/\ state.currentStep = "BLINK"
       /\ Len(state'.completedSteps) > Len(state.completedSteps)
       => /\ eyeRuns'.open >= OPEN_FRAME_THRESHOLD
          /\ eyeRuns'.closed >= CLOSED_FRAME_THRESHOLD]_vars

----------------------------------------------------------------------------
(* The alignment gate alone, with a user who is not yet in place: turned   *)
(* away, beside the guide box, or far from the camera.  The session is     *)
(* followed up to the end of ALIGN.                                        *)

(* A face of in-band size at the left edge of the video, outside the box. *)
OutsideFace ==
    [Face(Neutral, OpenEAR) EXCEPT !.x = 20, !.centerX = 120]

(* A face far from the camera (narrower than MIN_FACE_RATIO of the guide   *)
(* box) at the left edge of the video, outside the box.                    *)
FarFace ==
    [Face(Neutral, OpenEAR) EXCEPT !.x = 20, !.y = 100, !.width = 100,
                                   !.height = 125, !.centerX = 70, !.centerY = 162]

(* The window of the analyzer holds no frame of a face beside the box. *)
NoneOutside ==
    \A i \in 1..Len(antiSpoofRef.frameHistory) :
        antiSpoofRef.frameHistory[i].centerX # OutsideFace.centerX

AlignFaces ==
    {Face(Neutral, OpenEAR), Face(PoseFor("TURN_LEFT"), OpenEAR), FarFace}
        \cup (IF NoneOutside THEN {OutsideFace} ELSE {})

AlignFrame ==
    /\ state.currentStep = "ALIGN"
    /\ \E f \in AlignFaces : Frame(Live(f))

AlignNext ==
    \/ Start
    \/ AlignFrame
    \/ TimerEnterStep
    \/ TimerOnSuccess
    \/ Tick

AlignSpec == Init /\ [][AlignNext]_vars

(* C11: the baseline is captured once: when baselineMetrics is non-null no *)
(* frame changes it, further frames inside the guide box while ALIGN is    *)
(* still displayed included.                                               *)
C11_BaselineImmutable ==
    [][state.baselineMetrics # NONE /\ AlignFrame
       => state'.baselineMetrics = state.baselineMetrics]_vars

(* C13: while ALIGN is displayed, a frame whose face bounding box is       *)
(* outside the margin-expanded guide box sets alignedFrameCount to 0 and   *)
(* completes nothing.                                                      *)
C13_OutsideResets ==
    [][\A f \in AlignFaces :
          /\ state.currentStep = "ALIGN"
          /\ ~isFaceInsideGuide(calculateBoundingBox(Live(f)), calculateGuideBox,
                                INSIDE_GUIDE_MARGIN)
          /\ Frame(Live(f))
          => /\ state'.alignedFrameCount = 0
             /\ state'.completedSteps = state.completedSteps]_vars

(* C19: while a session is running, every frame that carries a detected    *)
(* face updates the anti-spoof analyzer, whatever the step and whatever    *)
(* the size of the face.                                                   *)
C19_AnalyzerSeesEveryFace ==
    [][\A f \in AlignFaces :
          /\ state.currentStep \in ChallengeSteps
          /\ ~state.isComplete
          /\ Frame(Live(f))
          => antiSpoofRef' = updateAntiSpoofState(antiSpoofRef, Live(f))]_vars

----------------------------------------------------------------------------
(* The head-pose gate alone: the user follows the prompts up to the first  *)
(* turn, and during the turn holds the pose, looks back at the camera or   *)
(* leans away from it.  The session is followed up to the end of           *)
(* TURN_LEFT.                                                              *)

TurnFaces ==
    IF state.currentStep \in TurnSteps
    THEN {Face(Neutral, OpenEAR), Face(PoseFor(state.currentStep), OpenEAR), FarFace}
    ELSE PromptedFaces \cup BlinkFaces

TurnFrame ==
    /\ state.currentStep \in {"ALIGN", "BLINK", "TURN_LEFT"}
    /\ \E f \in TurnFaces : Frame(Live(f))

TurnNext ==
    \/ Start
    \/ TurnFrame
    \/ TimerEnterStep
    \/ TimerOnSuccess
    \/ Tick

TurnSpec == Init /\ [][TurnNext]_vars

(* The face satisfies the direction predicate of the displayed step. *)
Satisfies(face) ==
    targetReached(state.currentStep,
        getYawDelta(calculatePoseMetrics(face).yawMetric,
                    state.baselineMetrics.yawMetric),
        getPitchDelta(calculatePoseMetrics(face).pitchMetric,
                      state.baselineMetrics.pitchMetric))

(* C18: during a TURN step a frame that satisfies the direction predicate  *)
(* adds 1 to heldFrames or, as the last of POSE_HELD_FRAMES in a row,      *)
(* completes the step; a frame that fails the predicate sets heldFrames to *)
(* 0 and completes nothing.  Stated for the sessions in which no step was  *)
(* completed twice.                                                        *)
C18_HeldFramesConsecutive ==
    [][\A f \in TurnFaces :
          /\ state.currentStep \in TurnSteps
          /\ state.baselineMetrics # NONE
          /\ Repeats(state.completedSteps) = 0
          /\ Frame(Live(f))
          => LET completes ==
                     Len(state'.completedSteps) > Len(state.completedSteps)
             IN  /\ Satisfies(Live(f)) /\ ~completes =>
                        state'.headPoseState.heldFrames =
                            state.headPoseState.heldFrames + 1
                 /\ ~Satisfies(Live(f)) =>
                        state'.headPoseState.heldFrames = 0 /\ ~completes
                 /\ completes =>
                        /\ Satisfies(Live(f))
                        /\ state.headPoseState.heldFrames + 1 >= POSE_HELD_FRAMES]_vars

----------------------------------------------------------------------------
(* The blink calibration alone: the user keeps the eyes open, at one EAR   *)
(* for the whole of a session, through ALIGN and BLINK, and may restart.   *)

SteadyFaces ==
    IF state.currentStep = "BLINK"
    THEN IF smoothedEARRef = 0
         THEN {Face(Neutral, OpenEAR), Face(Neutral, WideEAR)}
         ELSE {Face(Neutral, smoothedEARRef)}
    ELSE {Face(Neutral, OpenEAR)}

SteadyFrame ==
    /\ state.currentStep \in {"ALIGN", "BLINK"}
    /\ \E f \in SteadyFaces : Frame(Live(f))

CalibrationNext ==
    \/ Start
    \/ Restart
    \/ SteadyFrame
    \/ TimerEnterStep
    \/ TimerStart
    \/ TimerOnSuccess
    \/ Tick

CalibrationSpec == Init /\ [][CalibrationNext]_vars

(* C17: when BLINK is calibrated by BLINK_CALIBRATION_FRAMES frames whose  *)
(* smoothed EAR is one value e, openEARBaseline is e and closedThreshold   *)
(* is e * CLOSED_THRESHOLD_RATIO, from the end of the calibration to the   *)
(* end of the BLINK step.  Stated for BLINK entered after ALIGN, and ALIGN *)
(* alone, was completed in the session.                                    *)
C17_CalibrationOfConstantEAR ==
    LET e == smoothedEARRef
        calibration == LastN(earSamples, BLINK_CALIBRATION_FRAMES)
    IN  /\ state.currentStep = "BLINK"
        /\ state.completedSteps = <<"ALIGN">>
        /\ ~state.blinkState.isCalibrating
        /\ state.blinkState.calibrationFrames = BLINK_CALIBRATION_FRAMES
        /\ Len(calibration) = BLINK_CALIBRATION_FRAMES
        /\ \A i \in 1..Len(calibration) : calibration[i] = e
        => /\ state.blinkState.openEARBaseline = e
           /\ state.blinkState.closedThreshold =
                  (e * CLOSED_THRESHOLD_RATIO + 50) \div 100

----------------------------------------------------------------------------
(* The anti-spoof analyzer alone: the camera sees either a printed photo,  *)
(* flat and perfectly still, or a living user who keeps the eyes open.     *)
(* The session is followed through ALIGN and BLINK.                        *)

(* A face whose keypoints have the depth variance z. *)
Subject(z) == [Face(Neutral, OpenEAR) EXCEPT !.zVariance = z]

PhotoFace == Subject(0)

(* What is in front of the camera stays there for the session: the photo,  *)
(* or a user whose depth variance is just above the floor or well above.   *)
SubjectFaces ==
    LET h == antiSpoofRef.frameHistory
    IN  IF Len(h) = 0
        THEN {PhotoFace, Subject(MIN_DEPTH_VARIANCE + 1), Face(Neutral, OpenEAR)}
        ELSE IF h[Len(h)].zVariance = 0 THEN {PhotoFace}
        ELSE {Live(Subject(h[Len(h)].zVariance))}

SubjectFrame ==
    /\ state.currentStep \in {"ALIGN", "BLINK"}
    /\ \E f \in SubjectFaces : Frame(f)

SpoofNext ==
    \/ Start
    \/ SubjectFrame
    \/ ProcessNoFace
    \/ TimerEnterStep
    \/ TimerOnSuccess
    \/ Tick

SpoofSpec == Init /\ [][SpoofNext]_vars

All(s, P(_)) == \A i \in 1..Len(s) : P(s[i])

IsZero(n) == n = 0

AboveDepthFloor(v) == v > MIN_DEPTH_VARIANCE

AboveMovementFloor(v) == v > MIN_MICRO_MOVEMENT \div 100

(* C20: once frameHistory holds MIN_FRAMES_FOR_CHECK frames, a window of   *)
(* zero depth variance and zero movement has isSpoof = TRUE, and a window  *)
(* in which every depth variance and every movement score is above its     *)
(* floor has isSpoof = FALSE.                                              *)
C20_SpoofVerdict ==
    Len(antiSpoofRef.frameHistory) >= MIN_FRAMES_FOR_CHECK =>
        /\ All(antiSpoofRef.depthVariances, IsZero)
             /\ All(antiSpoofRef.movementScores, IsZero)
             => antiSpoofRef.isSpoof
        /\ All(antiSpoofRef.depthVariances, AboveDepthFloor)
             /\ All(antiSpoofRef.movementScores, AboveMovementFloor)
             => ~antiSpoofRef.isSpoof

(* C20, its case: the analyzer has judged a window of flat, still frames,  *)
(* and the frame was rejected for it.                                      *)
C20_Witness ==
    /\ Len(antiSpoofRef.frameHistory) >= MIN_FRAMES_FOR_CHECK
    /\ All(antiSpoofRef.depthVariances, IsZero)
    /\ All(antiSpoofRef.movementScores, IsZero)
    /\ antiSpoofRef.isSpoof
    /\ state.error = "Flat face detected (no depth)"

----------------------------------------------------------------------------
(* A user who follows the prompts up to the first turn but not always well: *)
(* the face may leave the picture, be too far from or too close to the     *)
(* camera, be tilted during the turn, or freeze.  The session is followed  *)
(* up to the end of TURN_LEFT.                                             *)

(* A face close to the camera (wider than MAX_FACE_RATIO of the guide box). *)
CloseFace ==
    [Face(Neutral, OpenEAR) EXCEPT !.x = 130, !.y = 10, !.width = 380,
                                   !.height = 460, !.centerY = 240]

(* The face with the head tilted beyond ROLL_WARNING_THRESHOLD. *)
Tilted(face) == [face EXCEPT !.rollMetric = ROLL_WARNING_THRESHOLD + 5]

(* The face with the pose the displayed step asks for. *)
Posed(face) ==
    [face EXCEPT !.yawMetric = PoseFor(state.currentStep).yawMetric,
                 !.pitchMetric = PoseFor(state.currentStep).pitchMetric]

(* The face with its keypoint centroid where the frame before had it. *)
Frozen(face) ==
    LET h == antiSpoofRef.frameHistory
    IN  IF Len(h) = 0 THEN face ELSE [face EXCEPT !.centerX = h[Len(h)].centerX]

(* The last two frames the analyzer saw did not differ. *)
Froze ==
    /\ Len(antiSpoofRef.movementScores) > 0
    /\ antiSpoofRef.movementScores[Len(antiSpoofRef.movementScores)] = 0

(* Frames of a session after which the user is no longer beside the box. *)
MaxBeside == 1

(* A user who froze stays frozen; one who moves may freeze during a turn. *)
FaultFaces ==
    LET posed == Posed(Face(Neutral, OpenEAR))
    IN  IF Froze
        THEN {Frozen(Face(Neutral, OpenEAR)), Frozen(posed)}
        ELSE {Live(f) : f \in PromptedFaces \cup BlinkFaces}
               \cup {FarFace, CloseFace}
               \cup (IF state.currentStep = "ALIGN"
                        /\ Len(antiSpoofRef.frameHistory) < MaxBeside
                     THEN {OutsideFace} ELSE {})
               \cup (IF state.currentStep \in TurnSteps
                     THEN {Live(Tilted(posed)), Tilted(Posed(FarFace)),
                           Frozen(Face(Neutral, OpenEAR))}
                     ELSE {})

FaultFrame ==
    /\ state.currentStep \in {"ALIGN", "BLINK", "TURN_LEFT"}
    /\ \E f \in FaultFaces : Frame(f)

FaultNext ==
    \/ Start
    \/ FaultFrame
    \/ ProcessNoFace
    \/ TimerEnterStep
    \/ TimerOnSuccess
    \/ Tick

FaultSpec == Init /\ [][FaultNext]_vars

(***************************************************************************)
(* Properties of the error branches of processFace, under FaultSpec.       *)
(***************************************************************************)

(* processFace does not return at its first check (lines 423-425). *)
Active == ~state.isComplete /\ state.currentStep \notin {"IDLE", "SUCCESS"}

(* The face passes the size checks of lines 440-455. *)
InBand(face) ==
    /\ face # NONE
    /\ calculateBoundingBox(face).width * 100 >= MIN_FACE_RATIO * calculateGuideBox.width
    /\ calculateBoundingBox(face).width * 100 <= MAX_FACE_RATIO * calculateGuideBox.width

(* The verdict of the analyzer after it has been updated with the face. *)
SpoofVerdict(face) == updateAntiSpoofState(antiSpoofRef, face).isSpoof

(* The messages the spoof branch can leave in state.error. *)
SpoofMessages ==
    {"Photo or screen detected. Use a real face.",
     "Flat face detected (no depth)", "No natural micro-movements",
     "Face too static"}

(* C21: on every frame whose anti-spoof verdict after the update is spoof, *)
(* no step is completed: alignedFrameCount and heldFrames are reset to 0,  *)
(* currentStep and completedSteps keep their values and no timer is set.   *)
C21_SpoofBlocksProgress ==
    [][\A f \in FaultFaces :
          Active /\ InBand(f) /\ SpoofVerdict(f) /\ Frame(f)
          => /\ state'.completedSteps = state.completedSteps
             /\ state'.currentStep = state.currentStep
             /\ state'.alignedFrameCount = 0
             /\ state'.headPoseState.heldFrames = 0
             /\ state'.stepCompletedAt = state.stepCompletedAt
             /\ Len(timers') <= Len(timers)]_vars

(* A held head turn is interrupted by a spoof verdict: the last frame      *)
(* showed the prompted pose, and the hold counter is back at 0.            *)
C21_Witness ==
    /\ state.currentStep \in TurnSteps
    /\ state.baselineMetrics # NONE
    /\ antiSpoofRef.isSpoof
    /\ currentMetricsRef = PoseFor(state.currentStep)
    /\ state.headPoseState.heldFrames = 0
    /\ state.error \in SpoofMessages
    /\ ~state.stepCompletedAt

(* The frame takes one of the error branches: no face, a face outside the  *)
(* size band, a spoof verdict, a face outside the guide during ALIGN, or a *)
(* rolled head during a turn.                                              *)
ErrorFrame(face) ==
    /\ Active
    /\ \/ face = NONE
       \/ ~InBand(face)
       \/ SpoofVerdict(face)
       \/ /\ state.currentStep = "ALIGN"
          /\ ~isFaceInsideGuide(calculateBoundingBox(face), calculateGuideBox,
                                INSIDE_GUIDE_MARGIN)
       \/ /\ state.currentStep \in TurnSteps
          /\ state.baselineMetrics # NONE
          /\ ~isRollAcceptable(calculatePoseMetrics(face).rollMetric,
                               ROLL_WARNING_THRESHOLD)

(* C22: errors never terminate or advance the session: a frame that takes  *)
(* an error branch leaves currentStep, stepOrder, completedSteps,          *)
(* baselineMetrics and isComplete as they were.                            *)
C22_ErrorsKeepSession ==
    [][\A f \in FaultFaces \cup {NoFace} :
          ErrorFrame(f) /\ Frame(f)
          => /\ state'.currentStep = state.currentStep
             /\ state'.stepOrder = state.stepOrder
             /\ state'.completedSteps = state.completedSteps
             /\ state'.baselineMetrics = state.baselineMetrics
             /\ state'.isComplete = state.isComplete]_vars

(* A turn step with its baseline and two completed steps: the user showed  *)
(* the prompted pose and then left the frame.                              *)
C22_Witness ==
    /\ state.currentStep \in TurnSteps
    /\ state.baselineMetrics # NONE
    /\ Len(state.completedSteps) = 2
    /\ ~state.stepCompletedAt
    /\ currentMetricsRef = PoseFor(state.currentStep)
    /\ state.error = "No face detected. Move into the frame."

----------------------------------------------------------------------------
(* Clearing of errors.  The user drifts while BLINK is displayed: leaves   *)
(* the frame, steps back, or stands beside the box.                        *)

DriftFaces ==
    IF state.currentStep = "BLINK"
    THEN {Face(Neutral, OpenEAR), FarFace}
            \cup (IF NoneOutside THEN {OutsideFace} ELSE {})
    ELSE {Face(Neutral, OpenEAR)}

DriftFrame ==
    /\ state.currentStep \in {"ALIGN", "BLINK"}
    /\ \E f \in DriftFaces : Frame(Live(f))

DriftNext ==
    \/ Start
    \/ DriftFrame
    \/ ProcessNoFace
    \/ TimerEnterStep
    \/ Tick

DriftSpec == Init /\ [][DriftNext]_vars

(* The messages of the conditions a detected, in-band, non-spoof face has  *)
(* resolved.                                                               *)
ResolvedMessages ==
    {"No face detected. Move into the frame.", "Move closer to the camera",
     "Move further from the camera"} \cup SpoofMessages

(* C23: errors are cleared once their condition resolves: after a frame    *)
(* with a detected face of in-band size and a non-spoof verdict, in any    *)
(* active step, state.error is none of the NoFaceDetected, TooClose/TooFar *)
(* or SpoofSuspected messages.                                             *)
C23_ResolvedErrorsCleared ==
    [][\A f \in DriftFaces :
          /\ Active
          /\ Repeats(state.completedSteps) = 0
          /\ InBand(Live(f))
          /\ ~SpoofVerdict(Live(f))
          /\ Frame(Live(f))
          => state'.error \notin ResolvedMessages]_vars

----------------------------------------------------------------------------
(* Properties of the error branches, continued (FaultSpec).                *)

(* C27: a frame whose face is narrower than MIN_FACE_RATIO or wider than   *)
(* MAX_FACE_RATIO of the guide box only sets the error text: it leaves     *)
(* alignedFrameCount, headPoseState, blinkState, completedSteps and        *)
(* currentStep as they were.                                               *)
C27_SizeViolationOnlySetsError ==
    [][\A f \in FaultFaces :
          Active /\ f # NONE /\ ~InBand(f) /\ Frame(f)
          => /\ state'.error \in {"Move closer to the camera",
                                  "Move further from the camera"}
             /\ state'.alignedFrameCount = state.alignedFrameCount
             /\ state'.headPoseState = state.headPoseState
             /\ state'.blinkState = Elapse(Machine).state.blinkState
             /\ state'.completedSteps = state.completedSteps
             /\ state'.currentStep = state.currentStep]_vars

(* The user leans in during ALIGN: the count of aligned frames is kept.    *)
C27_Witness ==
    /\ state.currentStep = "ALIGN"
    /\ state.alignedFrameCount > 0
    /\ state.error = "Move further from the camera"

(* C28: a frame with no detected face, in any active step, sets            *)
(* alignedFrameCount to 0, heldFrames to 0 and the NoFaceDetected error.   *)
C28_NoFaceResets ==
    [][Active /\ ProcessNoFace
       => /\ state'.alignedFrameCount = 0
          /\ state'.headPoseState.heldFrames = 0
          /\ state'.error = "No face detected. Move into the frame."]_vars

(* The user leaves the frame during ALIGN after frames inside the box. *)
C28_Witness ==
    /\ state.currentStep = "ALIGN"
    /\ state.completedSteps = <<>>
    /\ Len(antiSpoofRef.frameHistory) >= 2
    /\ state.alignedFrameCount = 0
    /\ state.error = "No face detected. Move into the frame."

(* C29: during a TURN step, a frame whose |rollMetric| exceeds             *)
(* ROLL_WARNING_THRESHOLD sets the ExcessiveRoll error, resets heldFrames  *)
(* to 0 and does not complete the step, even when the face satisfies the   *)
(* direction predicate.                                                    *)
C29_RollBlocksTurn ==
    [][\A f \in FaultFaces :
          /\ Active
          /\ state.currentStep \in TurnSteps
          /\ state.baselineMetrics # NONE
          /\ Repeats(state.completedSteps) = 0
          /\ f # NONE
          /\ ~isRollAcceptable(calculatePoseMetrics(f).rollMetric,
                               ROLL_WARNING_THRESHOLD)
          /\ Frame(f)
          => /\ state'.error = "Keep your head straight (not tilted)"
             /\ state'.headPoseState.heldFrames = 0
             /\ state'.completedSteps = state.completedSteps]_vars


----------------------------------------------------------------------------
(* Recorded deltas.                                                        *)

(* The step a transition completed, NULL when it completed none. *)
Completed ==
    IF Len(state'.completedSteps) = Len(state.completedSteps) + 1
    THEN state'.completedSteps[Len(state'.completedSteps)]
    ELSE NULL

(* The list grew by exactly one value, which satisfies the predicate of    *)
(* the step when it stands for the yaw or the pitch delta.                 *)
RecordedOne(before, after, step) ==
    /\ Len(after) = Len(before) + 1
    /\ IsPrefix(before, after)
    /\ targetReached(step, after[Len(after)], after[Len(after)])

(* C30: each completion of a TURN step records exactly one delta, in       *)
(* yawDeltas for LEFT/RIGHT and in pitchDeltas for UP/DOWN, and the value  *)
(* satisfies the direction predicate of the step; completions of ALIGN and *)
(* BLINK record none.                                                      *)
C30_OneDeltaPerTurn ==
    [][/\ Completed \in {"TURN_LEFT", "TURN_RIGHT"}
          => /\ RecordedOne(state.yawDeltas, state'.yawDeltas, Completed)
             /\ state'.pitchDeltas = state.pitchDeltas
       /\ Completed \in {"TURN_UP", "TURN_DOWN"}
          => /\ RecordedOne(state.pitchDeltas, state'.pitchDeltas, Completed)
             /\ state'.yawDeltas = state.yawDeltas
       /\ Completed \in {"ALIGN", "BLINK"}
          => /\ state'.yawDeltas = state.yawDeltas
             /\ state'.pitchDeltas = state.pitchDeltas]_vars

(* TURN_UP was completed last, after both yaw steps and a blink. *)
C30_Witness ==
    /\ Len(state.completedSteps) >= 4
    /\ state.completedSteps[Len(state.completedSteps)] = "TURN_UP"
    /\ "BLINK" \in {state.completedSteps[i] : i \in 1..Len(state.completedSteps)}
    /\ Len(state.yawDeltas) = 2
    /\ state.pitchDeltas = <<PoseFor("TURN_UP").pitchMetric>>

----------------------------------------------------------------------------
(* Degenerate calibration: the user may keep the eyes shut (an EAR of 0)   *)
(* through the calibration of BLINK.  Once the step is calibrated the user *)
(* holds the eyes as they are, opens them when they are shut, or closes    *)
(* them when they are fully open.  The user may restart.                   *)

ShutEAR == 0

(* BLINK is displayed and its calibration froze a baseline of 0. *)
Degenerate ==
    /\ state.currentStep = "BLINK"
    /\ ~state.blinkState.isCalibrating
    /\ state.blinkState.openEARBaseline = 0

ShutFaces ==
    IF state.currentStep = "BLINK"
    THEN IF state.blinkState.isCalibrating /\ state.blinkState.calibrationFrames = 0
         THEN {Face(Neutral, ShutEAR), Face(Neutral, OpenEAR)}
         ELSE {Face(Neutral, smoothedEARRef)}
                 \cup (IF Degenerate /\ smoothedEARRef = ShutEAR
                       THEN {Face(Neutral, OpenEAR)} ELSE {})
                 \cup (IF Degenerate /\ smoothedEARRef = OpenEAR
                       THEN {Face(Neutral, ClosedEAR)} ELSE {})
    ELSE {Face(Neutral, OpenEAR)}

ShutFrame ==
    /\ state.currentStep \in {"ALIGN", "BLINK"}
    /\ \E f \in ShutFaces : Frame(Live(f))

ShutNext ==
    \/ Start
    \/ Restart
    \/ ShutFrame
    \/ TimerEnterStep
    \/ TimerStart
    \/ Tick

ShutSpec == Init /\ [][ShutNext]_vars

(* The fields of blinkState a frame can write; the time since the last     *)
(* blink is advanced by the clock.                                         *)
Stored(blinkState) == [blinkState EXCEPT !.sinceLastBlink = 0]

(* C26, as stated: after a calibration that froze openEARBaseline = 0,     *)
(* every frame is classified UNKNOWN, blinkState.eyeState is never OPEN or *)
(* CLOSED, the closed and open counters do not change and BLINK is not     *)
(* completed; the session leaves BLINK only through start() or restart().  *)
(* Stated for the first session, BLINK entered after ALIGN.                *)
C26_DegenerateStaysUnknown ==
    [][Degenerate /\ state.completedSteps = <<"ALIGN">> /\ sessions = 1
       => \/ sessions' # sessions
          \/ /\ \A f \in ShutFaces :
                   Frame(Live(f)) => EyeClass(Live(f)) = "UNKNOWN"
             /\ state'.blinkState.eyeState \notin {"OPEN", "CLOSED"}
             /\ state'.blinkState.closedFrameCount = state.blinkState.closedFrameCount
             /\ state'.blinkState.openFrameCount = state.blinkState.openFrameCount
             /\ state'.completedSteps = state.completedSteps
             /\ state'.currentStep = "BLINK"]_vars

(* C26, amended: after a calibration that froze openEARBaseline = 0, every *)
(* frame is classified UNKNOWN and writes nothing to blinkState: eyeState  *)
(* keeps the OPEN the freezing frame stored and is never CLOSED, the       *)
(* counters do not change, BLINK is not completed, and the session leaves  *)
(* BLINK only through start() or restart().                                *)
C26_DegenerateNeverBlinks ==
    [][Degenerate
       => \/ sessions' # sessions
          \/ /\ \A f \in ShutFaces :
                   Frame(Live(f)) => EyeClass(Live(f)) = "UNKNOWN"
             /\ state.blinkState.eyeState = "OPEN"
             /\ Stored(state'.blinkState) = Stored(state.blinkState)
             /\ state'.completedSteps = state.completedSteps
             /\ state'.currentStep = "BLINK"]_vars

(* The eyes were shut through the calibration and are open now: the frame  *)
(* with open eyes was processed and no run was counted.                    *)
C26_Witness ==
    /\ Degenerate
    /\ smoothedEARRef = OpenEAR
    /\ state.blinkState.eyeState = "OPEN"
    /\ state.blinkState.closedFrameCount = 0

----------------------------------------------------------------------------
(* The smoother alone: ema applied to a stream of EAR values, as the first *)
(* statement of processBlink does, with any smoothing factor; start() and  *)
(* restart() set the smoothed value back to 0.                             *)

MaxSmoothed == 3

(* EAR values in hundredths and smoothing factors in tenths. *)
EARInputs == {0, 1, ClosedEAR, 17, OpenEAR, WideEAR}
Alphas == 0..10

Smooth(x, alpha) ==
    /\ Len(earSamples) < MaxSmoothed
    /\ smoothedEARRef' = ema(x, smoothedEARRef, alpha)
    /\ earSamples' = Append(earSamples, smoothedEARRef')
    /\ UNCHANGED <<loop, state, currentMetricsRef, antiSpoofRef, timers, results,
                   sessions, eyeRuns>>

Smoothing == \E x \in EARInputs, alpha \in Alphas : Smooth(x, alpha)

ResetSmoother ==
    /\ smoothedEARRef # 0
    /\ Len(earSamples) < MaxSmoothed
    /\ smoothedEARRef' = 0
    /\ UNCHANGED <<loop, state, earSamples, currentMetricsRef, antiSpoofRef, timers,
                   results, sessions, eyeRuns>>

SmootherNext == Smoothing \/ ResetSmoother

SmootherSpec == Init /\ [][SmootherNext]_vars

(* C25: EMA cold-start identity: ema(x, 0, alpha) returns x for every x    *)
(* and every alpha.                                                        *)
C25_EmaColdStart ==
    [][\A x \in EARInputs, alpha \in Alphas :
          smoothedEARRef = 0 /\ Smooth(x, alpha) => smoothedEARRef' = x]_vars

(* The first value of a stream was taken as it is. *)
C25_Witness ==
    /\ earSamples = <<OpenEAR>>
    /\ smoothedEARRef = OpenEAR
    /\ state.currentStep = "IDLE"

----------------------------------------------------------------------------
(* The frame loop: animation-frame callbacks, onFrame calls that take any  *)
(* time to settle, renders that change `enabled` or recreate the loop, and *)
(* the effect that restarts it.                                            *)

MaxPending == 3
MaxRunning == 2

(* requestAnimationFrame(loop) by a closure that captured en, its id       *)
(* stored in rafRef.current.                                               *)
requestAnimationFrame(l, en) ==
    [l EXCEPT !.pending = Append([i \in 1..Len(@) |-> [@[i] EXCEPT !.ref = FALSE]],
                                 [ref |-> TRUE, en |-> en]),
              !.rafRef = "pending"]

(* cancelAnimationFrame(rafRef.current); rafRef.current = null. *)
cancelAnimationFrame(l) ==
    [l EXCEPT !.pending = SelectSeq(@, LAMBDA c : ~c.ref),
              !.rafRef = NULL]

(* loop without the inFlightRef check of line 33. *)
loopCallbackUnguarded(l, i) ==
    LET c == l.pending[i]
        taken == [l EXCEPT !.pending = Without(@, i),
                           !.rafRef = IF c.ref THEN "fired" ELSE @]
        next == requestAnimationFrame(taken, c.en)
    IN  IF ~c.en
        THEN taken
        ELSE IF next.age * RafPeriodMs < frameInterval
        THEN next
        ELSE [next EXCEPT !.inFlight = TRUE, !.running = Append(@, 0)]

(* The body of loop (lines 22-35) for the queued callback i, up to the     *)
(* call of onFrame.                                                        *)
loopCallback(l, i) ==
    LET c == l.pending[i]
        taken == [l EXCEPT !.pending = Without(@, i),
                           !.rafRef = IF c.ref THEN "fired" ELSE @]
        next == requestAnimationFrame(taken, c.en)
    IN  IF ~c.en
        THEN taken
        ELSE IF next.age * RafPeriodMs < frameInterval
        THEN next
        ELSE IF next.inFlight
        THEN [next EXCEPT !.blocked = TRUE]
        ELSE [next EXCEPT !.inFlight = TRUE, !.running = Append(@, 0)]

(* settle, were the flag cleared only after a fulfilled call. *)
settleStuck(l, j, fulfilled) ==
    [l EXCEPT !.age = IF fulfilled THEN l.running[j] ELSE @,
              !.inFlight = ~fulfilled,
              !.running = Without(@, j),
              !.blocked = FALSE,
              !.failed = ~fulfilled]

(* The promise of the onFrame call j settles (lines 36-41): fulfilled, the *)
(* timestamp of the call becomes lastFrameTimeRef.current.                 *)
settle(l, j, fulfilled) ==
    [l EXCEPT !.age = IF fulfilled THEN l.running[j] ELSE @,
              !.inFlight = FALSE,
              !.running = Without(@, j),
              !.blocked = FALSE,
              !.failed = ~fulfilled]

(* The effect of lines 45-56 after a render: the cleanup of the previous   *)
(* run, then the new run.                                                  *)
effect(l) ==
    LET cleaned == IF l.rafRef # NULL THEN cancelAnimationFrame(l) ELSE l
        started == IF l.enabled
                   THEN requestAnimationFrame(cleaned, l.enabled)
                   ELSE cleaned
    IN  [started EXCEPT !.effectPending = FALSE]

Older(n) == IF n < PeriodsPerInterval THEN n + 1 ELSE n

Idle == UNCHANGED <<state, earSamples, smoothedEARRef, currentMetricsRef,
                    antiSpoofRef, timers, results, sessions, eyeRuns>>

(* An animation frame runs one of the queued callbacks. *)
RafFire ==
    /\ \E i \in 1..Len(loop.pending) :
          /\ Len(loopCallback(loop, i).running) <= MaxRunning
          /\ Len(loopCallback(loop, i).pending) <= MaxPending
          /\ loop' = loopCallback(loop, i)
    /\ Idle

Settle ==
    /\ \E j \in 1..Len(loop.running), fulfilled \in BOOLEAN :
          loop' = settle(loop, j, fulfilled)
    /\ Idle

(* A render with a new `enabled` or a new onFrame: loop is recreated and   *)
(* the effect is scheduled.                                                *)
Render ==
    /\ ~loop.effectPending
    /\ \E en \in BOOLEAN :
          loop' = [loop EXCEPT !.enabled = en, !.effectPending = TRUE]
    /\ Idle

FlushEffect ==
    /\ loop.effectPending
    /\ loop' = effect(loop)
    /\ Idle

(* One period of the display passes. *)
TimePass ==
    /\ loop' = [loop EXCEPT !.age = Older(@),
                            !.running = [j \in 1..Len(@) |-> Older(@[j])]]
    /\ loop' # loop
    /\ Idle

LoopNext == RafFire \/ Settle \/ Render \/ FlushEffect \/ TimePass

LoopSpec == Init /\ [][LoopNext]_vars

(* C24: the frame loop never overlaps frame processing: onFrame is not     *)
(* invoked again until the promise of the previous invocation has settled, *)
(* whatever the interleaving of animation-frame callbacks, renders that    *)
(* recreate the loop and changes of `enabled`.                             *)
C24_NoOverlap ==
    [][Len(loop'.running) > Len(loop.running) => Len(loop.running) = 0]_vars

(* An onFrame call is in flight, a callback was turned away at the         *)
(* inFlightRef check, and a render has disabled the loop since.            *)
C24_Witness ==
    /\ Len(loop.running) = 1
    /\ loop.blocked
    /\ ~loop.enabled

(* C40: when an onFrame call rejects the in-flight flag is cleared; the    *)
(* flag is never set without a call in flight; and the next callback of an *)
(* enabled loop that runs after the rejection invokes onFrame again.       *)
C40_LoopRecovers ==
    [][/\ \A j \in 1..Len(loop.running) :
             loop' = settle(loop, j, FALSE) => ~loop'.inFlight
       /\ loop.inFlight => Len(loop.running) > 0
       /\ loop'.inFlight => Len(loop'.running) > 0
       /\ \A i \in 1..Len(loop.pending) :
             /\ loop.failed
             /\ ~loop.inFlight
             /\ loop.pending[i].en
             /\ loop' = loopCallback(loop, i)
             => /\ loop'.inFlight
                /\ Len(loop'.running) = Len(loop.running) + 1]_vars

(* An onFrame call is in flight after the call before it rejected. *)
C40_Witness ==
    /\ loop.failed
    /\ loop.inFlight
    /\ Len(loop.running) = 1

----------------------------------------------------------------------------
(* The window of the analyzer (SpoofSpec).                                 *)

(* after is before with one entry added: at the end, and with the oldest   *)
(* entry removed when before was full.                                     *)
Shifted(before, after) ==
    IF Len(before) < MAX_HISTORY_FRAMES
    THEN Len(after) = Len(before) + 1 /\ IsPrefix(before, after)
    ELSE /\ Len(after) = MAX_HISTORY_FRAMES
         /\ \A i \in 1..(MAX_HISTORY_FRAMES - 1) : after[i] = before[i + 1]

(* C31: the anti-spoof history is bounded with oldest-first eviction:      *)
(* frameHistory, depthVariances and movementScores each hold at most       *)
(* MAX_HISTORY_FRAMES entries after any number of frames, and a frame      *)
(* added to a full list removes the oldest entry of it.                    *)
C31_BoundedHistory ==
    [][/\ Len(antiSpoofRef'.frameHistory) <= MAX_HISTORY_FRAMES
       /\ Len(antiSpoofRef'.depthVariances) <= MAX_HISTORY_FRAMES
       /\ Len(antiSpoofRef'.movementScores) <= MAX_HISTORY_FRAMES
       /\ antiSpoofRef' # antiSpoofRef /\ antiSpoofRef' # createAntiSpoofState
          => /\ Shifted(antiSpoofRef.frameHistory, antiSpoofRef'.frameHistory)
             /\ Shifted(antiSpoofRef.depthVariances, antiSpoofRef'.depthVariances)
             /\ IF Len(antiSpoofRef.frameHistory) = 0
                THEN antiSpoofRef'.movementScores = antiSpoofRef.movementScores
                ELSE Shifted(antiSpoofRef.movementScores,
                             antiSpoofRef'.movementScores)]_vars

(* All three lists are full and have evicted; the window holds the frames  *)
(* of a moving face.                                                       *)
C31_Witness ==
    /\ Len(antiSpoofRef.frameHistory) = MAX_HISTORY_FRAMES
    /\ Len(antiSpoofRef.depthVariances) = MAX_HISTORY_FRAMES
    /\ Len(antiSpoofRef.movementScores) = MAX_HISTORY_FRAMES
    /\ antiSpoofRef.frameHistory[1] # antiSpoofRef.frameHistory[2]
    /\ state.blinkState.calibrationFrames = BLINK_CALIBRATION_FRAMES

----------------------------------------------------------------------------
(* The score of the analyzer.  What is in front of the camera is a photo   *)
(* or a living face, and it moves or keeps still: it may stop moving once  *)
(* within the window of the analyzer and move again afterwards.            *)

ScoreFaces ==
    LET h == antiSpoofRef.frameHistory
        s == antiSpoofRef.movementScores
        subjects == IF Len(h) = 0 THEN {PhotoFace, Face(Neutral, OpenEAR)}
                    ELSE {Subject(h[Len(h)].zVariance)}
        mayFreeze == /\ Len(h) > 0
                     /\ \/ \A i \in 1..Len(s) : s[i] # 0
                        \/ Froze
    IN  {Live(f) : f \in subjects}
           \cup (IF mayFreeze THEN {Frozen(f) : f \in subjects} ELSE {})

ScoreFrame ==
    /\ state.currentStep \in {"ALIGN", "BLINK"}
    /\ \E f \in ScoreFaces : Frame(f)

ScoreNext ==
    \/ Start
    \/ ScoreFrame
    \/ TimerEnterStep
    \/ Tick

ScoreSpec == Init /\ [][ScoreNext]_vars

(* The indicators of analyzeSpoof on the lists the analyzer holds. *)
Triggered ==
    LET d == antiSpoofRef.depthVariances
        s == antiSpoofRef.movementScores
        recent == LastN(s, MAX_STATIC_FRAMES)
    IN  (IF SumSeq(d) < MIN_DEPTH_VARIANCE * Len(d) THEN {"depth"} ELSE {})
          \cup (IF /\ Len(s) > MIN_MOVEMENT_SAMPLES
                   /\ SumSeq(s) < (MIN_MICRO_MOVEMENT \div 100) * Len(s)
                THEN {"movement"} ELSE {})
          \cup (IF /\ Len(s) >= MAX_STATIC_FRAMES
                   /\ Cardinality({i \in 1..Len(recent) : recent[i] < STATIC_MOVEMENT}) * 10
                        > MAX_STATIC_FRAMES * STATIC_FRACTION
                THEN {"static"} ELSE {})

Weight(indicator) ==
    CASE indicator = "depth" -> DEPTH_CHECK_WEIGHT
      [] indicator = "movement" -> MOVEMENT_CHECK_WEIGHT
      [] indicator = "static" -> STATIC_CHECK_WEIGHT

RECURSIVE WeightOf(_)
WeightOf(indicators) ==
    IF indicators = {} THEN 0
    ELSE LET i == CHOOSE i \in indicators : TRUE
         IN  Weight(i) + WeightOf(indicators \ {i})

C33_NoEarlyVerdict ==
    Len(antiSpoofRef.frameHistory) < MIN_FRAMES_FOR_CHECK =>
        /\ ~antiSpoofRef.isSpoof
        /\ antiSpoofRef.spoofScore = 0
        /\ state.error \notin SpoofMessages

(* A still photo has been shown for all the frames before the first        *)
(* verdict: two indicators would trigger, and every frame was counted.     *)
C33_Witness ==
    /\ Len(antiSpoofRef.frameHistory) = MIN_FRAMES_FOR_CHECK - 1
    /\ {"depth", "movement"} \subseteq Triggered
    /\ ~antiSpoofRef.isSpoof
    /\ state.currentStep = "ALIGN"
    /\ state.alignedFrameCount = MIN_FRAMES_FOR_CHECK - 1

(* The message of the first indicator in the order of the checks. *)
ReasonOf(indicators) ==
    IF "depth" \in indicators THEN "Flat face detected (no depth)"
    ELSE IF "movement" \in indicators THEN "No natural micro-movements"
    ELSE IF "static" \in indicators THEN "Face too static"
    ELSE NULL

(* C34: the spoof reason surfaced is the first triggered indicator in the  *)
(* order of the checks (flat depth, low micro-movement, static frames),    *)
(* and on a frame rejected as spoof state.error is that reason.            *)
C34_FirstReasonSurfaced ==
    [][\A f \in ScoreFaces :
          Active /\ InBand(f) /\ Frame(f)
          /\ Len(antiSpoofRef'.frameHistory) >= MIN_FRAMES_FOR_CHECK
          => /\ antiSpoofRef'.reason = ReasonOf(Triggered')
             /\ SpoofVerdict(f) => state'.error = ReasonOf(Triggered')]_vars

(* A photo kept still for the whole window: all three indicators trigger   *)
(* and the frame is rejected with the message of the depth check.          *)
C34_Witness ==
    /\ Triggered = {"depth", "movement", "static"}
    /\ antiSpoofRef.isSpoof
    /\ state.error = "Flat face detected (no depth)"

(* ----------------------------------------------------------------------- *)
(* The success callback.                                                   *)
(* ----------------------------------------------------------------------- *)

(* The onSuccess calls completeStep has scheduled and that have not run.   *)
PendingSuccess == SelectSeq(timers, LAMBDA t : t.fn = "onSuccess")

(* The session reaches SUCCESS in this step. *)
ReachesSuccess == state.currentStep # "SUCCESS" /\ state'.currentStep = "SUCCESS"

(* C35: the success callback is invoked exactly once per session that      *)
(* reaches SUCCESS and never otherwise: a call is scheduled exactly in the *)
(* step that reaches SUCCESS, that step completes the last step of         *)
(* stepOrder, the result carries the completedSteps of that moment, a      *)
(* scheduled call is delivered as it was scheduled and never again, and    *)
(* there are never more calls than sessions.                               *)
C35_SuccessOnce ==
    [][/\ Len(PendingSuccess') + Len(results')
            = Len(PendingSuccess) + Len(results)
                + (IF ReachesSuccess THEN 1 ELSE 0)
       /\ Len(PendingSuccess') + Len(results') <= sessions'
       /\ ReachesSuccess =>
            /\ state.currentStep = state.stepOrder[Len(state.stepOrder)]
            /\ state'.completedSteps = Append(state.completedSteps, state.currentStep)
            /\ state'.isComplete
            /\ results' = results
            /\ PendingSuccess' =
                 Append(PendingSuccess,
                        PendingSuccess'[Len(PendingSuccess')])
            /\ PendingSuccess'[Len(PendingSuccess')].result.stepsCompleted
                 = state'.completedSteps
       /\ ~ReachesSuccess =>
            \/ results' = results /\ PendingSuccess' = PendingSuccess
            \/ /\ PendingSuccess # <<>>
               /\ results' = Append(results, PendingSuccess[1].result)
               /\ PendingSuccess' = Tail(PendingSuccess)]_vars

C35_Witness ==
    /\ state.currentStep = "SUCCESS"
    /\ Len(results) = 1
    /\ results[1].stepsCompleted = state.completedSteps
    /\ Len(state.completedSteps) >= Len(state.stepOrder)

(* ----------------------------------------------------------------------- *)
(* The end of a session.                                                   *)
(* ----------------------------------------------------------------------- *)

(* The detection results a frame of the session can carry. *)
SessionFaces == {Live(f) : f \in PromptedFaces \cup BlinkFaces} \cup {NoFace}

(* C36: isComplete is true exactly when currentStep is SUCCESS, and in a   *)
(* complete session processFace leaves the session state, the anti-spoof   *)
(* history included, unchanged for every frame.                            *)
C36_SuccessTerminal ==
    /\ state.isComplete <=> state.currentStep = "SUCCESS"
    /\ state.isComplete =>
          \A f \in SessionFaces :
              processFace(Machine, f, calculateGuideBox) = Machine

(* ----------------------------------------------------------------------- *)
(* Hold progress at the entry of a step.                                   *)
(* ----------------------------------------------------------------------- *)

(* A challenge step is entered in this step, by enterStep or by start(). *)
StepEntered ==
    /\ state'.currentStep \in ChallengeSteps
    /\ \/ state'.currentStep # state.currentStep
       \/ state.stepCompletedAt /\ ~state'.stepCompletedAt

(* C38: at the moment a step is entered alignedFrameCount and heldFrames   *)
(* are 0; heldFrames grows by at most one per step of the session, and a   *)
(* TURN step is appended to completedSteps only by a frame that finds      *)
(* POSE_HELD_FRAMES - 1 frames held, so frames held before the entry never *)
(* count toward the requirement of the step entered.                       *)
C38_NoHoldCarryOver ==
    [][/\ StepEntered => /\ state'.alignedFrameCount = 0
                         /\ state'.headPoseState.heldFrames = 0
       /\ state'.headPoseState.heldFrames <= state.headPoseState.heldFrames + 1
       /\ (/\ Len(state'.completedSteps) > Len(state.completedSteps)
           /\ state.currentStep \in TurnSteps)
          => state.headPoseState.heldFrames >= POSE_HELD_FRAMES - 1]_vars

C38_Witness ==
    /\ state.currentStep \in TurnSteps
    /\ ~state.stepCompletedAt
    /\ state.headPoseState.heldFrames = 0
    /\ state.alignedFrameCount = 0
    /\ state.completedSteps # <<>>
    /\ state.completedSteps[Len(state.completedSteps)] \in TurnSteps \ {state.currentStep}
    /\ currentMetricsRef = PoseFor(state.completedSteps[Len(state.completedSteps)])
    /\ Repeats(state.completedSteps) = 1

----------------------------------------------------------------------------
(* Frames rejected during BLINK.  A living user stands in the box, may     *)
(* keep still for a while before the blink is asked for, and once it is    *)
(* may leave the frame, lean in or step back between two frames; the user  *)
(* looks away while the next prompt is prepared.                           *)

RejectFaces ==
    LET h == antiSpoofRef.frameHistory
        s == antiSpoofRef.movementScores
        open == Face(Neutral, OpenEAR)
        mayFreeze == /\ Len(h) > 0
                     /\ \/ \A i \in 1..Len(s) : s[i] # 0
                        \/ Froze
    IN  IF state.stepCompletedAt
        THEN {NoFace}
        ELSE IF state.currentStep = "BLINK" /\ ~state.blinkState.isCalibrating
        THEN {Live(f) : f \in PromptedFaces \cup BlinkFaces}
                \cup {NoFace, FarFace, CloseFace}
        ELSE {Live(open)} \cup (IF mayFreeze THEN {Frozen(open)} ELSE {})

RejectFrame ==
    /\ state.currentStep \in {"ALIGN", "BLINK"}
    /\ \E f \in RejectFaces : Frame(f)

RejectNext ==
    \/ Start
    \/ RejectFrame
    \/ TimerEnterStep

RejectSpec == Init /\ [][RejectNext]_vars

(* C39: during BLINK a frame rejected before the gate (no face, a face too *)
(* far or too close, a spoof verdict) leaves blinkState, the smoothed EAR  *)
(* and the completed steps as they were, whatever the counters hold; and   *)
(* the open frame that ends the open run after a closed run completes the  *)
(* blink, whether or not rejected frames came in between.                  *)
C39_RejectedKeepBlink ==
    [][\A f \in RejectFaces :
          /\ (/\ Active
              /\ state.currentStep = "BLINK"
              /\ (f = NONE \/ ~InBand(f) \/ SpoofVerdict(f))
              /\ Frame(f))
             => /\ state'.blinkState = Elapse(Machine).state.blinkState
                /\ smoothedEARRef' = smoothedEARRef
                /\ earSamples' = earSamples
                /\ state'.completedSteps = state.completedSteps
          /\ (/\ Active
              /\ Detecting
              /\ InBand(f)
              /\ ~SpoofVerdict(f)
              /\ EyeClass(f) = "OPEN"
              /\ state.blinkState.closedFrameCount >= CLOSED_FRAME_THRESHOLD
              /\ state.blinkState.openFrameCount + 1 >= OPEN_FRAME_THRESHOLD
              /\ Frame(f))
             => state'.completedSteps = Append(state.completedSteps, "BLINK")]_vars

(* The user left the frame after the closed run and one open frame. *)
C39_Witness ==
    /\ state.currentStep = "BLINK"
    /\ ~state.stepCompletedAt
    /\ state.blinkState.closedFrameCount >= CLOSED_FRAME_THRESHOLD
    /\ state.blinkState.openFrameCount = OPEN_FRAME_THRESHOLD - 1
    /\ state.error = "No face detected. Move into the frame."


----------------------------------------------------------------------------
(* A detection in flight.  onFrame awaits detector.detectFaces(video): the *)
(* call reads the video frame when it begins and its result reaches        *)
(* processFace when the promise resolves, any time later; restart() and    *)
(* the timers run in between.                                              *)

FlightFaces == {Live(Face(Neutral, OpenEAR)), NoFace}

(* onFrame up to the await: nothing is done for a complete session. *)
Detect ==
    /\ sessions > 0
    /\ ~state.isComplete
    /\ state.currentStep \in {"IDLE", "ALIGN"}
    /\ loop.detection.session = 0
    /\ \E f \in FlightFaces :
          loop' = [loop EXCEPT !.detection = [face |-> f, session |-> sessions]]
    /\ Idle

(* onFrame after the await: the result is handed to processFace. *)
Deliver ==
    LET m == processFace(Machine, loop.detection.face, calculateGuideBox)
    IN  /\ loop.detection.session > 0
        /\ Due = {}
        /\ Repeats(m.state.completedSteps) <= MaxRepeats
        /\ Apply(m)
        /\ loop' = [loop EXCEPT !.detection = NoDetection]
        /\ eyeRuns' = Runs(state', eyeRuns)
        /\ UNCHANGED <<results, sessions>>

FlightNext ==
    \/ Start
    \/ Restart
    \/ Detect
    \/ Deliver
    \/ TimerEnterStep
    \/ TimerStart
    \/ Tick

FlightSpec == Init /\ [][FlightNext]_vars

(* C37: the result of a detection that was in flight when restart() was    *)
(* called is discarded: processFace changes nothing of the session that    *)
(* the start() after that restart created.                                 *)
C37_StaleDetectionDiscarded ==
    [][Deliver /\ loop.detection.session < sessions
       => UNCHANGED <<state, earSamples, smoothedEARRef, currentMetricsRef,
                      antiSpoofRef, timers>>]_vars
=============================================================================
